---------------------------- MODULE Spec2Model ----------------------------
(***************************************************************************)
(* Council of Elders: the deliberation orchestrator.                       *)
(*                                                                         *)
(* Council.Run drives Generate -> Discuss (x rounds) -> Vote -> Tally.     *)
(* Each phase starts one goroutine per agent; the goroutines share the     *)
(* session (appends under a mutex) and an error channel of capacity N,     *)
(* and the phase joins them (wg.Wait) before it sorts and returns.         *)
(*                                                                         *)
(* A model response is a sequence of tokens: the braces, a code fence, the *)
(* fence's json tag, any other text, and the member list of a JSON object. *)
(***************************************************************************)
EXTENDS Integers, Sequences, FiniteSets, TLC

\* ------------------------------------------------------------- bounds

\* Largest agent count of a run (the smallest is MinAgents).
MaxAgents == 3

\* Largest number of discussion rounds of a run.
MaxRounds == 2

\* Longest decoded ranking list a vote response carries in a concurrent run.
MaxRankLen == 2

\* Longest ranking list of a recorded vote in the states Tally starts from.
MaxBallotLen == 4

\* Longest free text, in tokens, that extractJSON and parseVote are given.
MaxTokens == 4

\* ---------------------------------------------------- program constants

\* validateRun: "minimum 3 agents required".
MinAgents == 3

\* validateRun: "minimum 1 discussion round required".
MinRounds == 1

\* The nil *int of Session.WinnerID and the zero time of CompletedAt.
NilID == 0

ZeroTime == 0

\* time.Now(): any instant after the zero time.
Now == 1

AgentCounts == MinAgents..MaxAgents

RoundCounts == MinRounds..MaxRounds

\* The placeholder reasoning of a degraded vote.
FailedReasoning == "Vote failed to parse"

\* ------------------------------------------------------------ helpers

\* A Go map[int]int with no key.
EmptyMap == [k \in {} |-> 0]

\* m[k] of a Go map: the zero value when the key is absent.
MapGet(m, k) == IF k \in DOMAIN m THEN m[k] ELSE 0

\* m[k] = v of a Go map: the key is created when absent.
MapSet(m, k, v) == [x \in (DOMAIN m) \cup {k} |-> IF x = k THEN v ELSE m[x]]

\* Every sequence over S of length at most n.
SeqsUpTo(S, n) == UNION {[1..k -> S] : k \in 0..n}

\* The sequences that list every element of the finite set S once.
RECURSIVE Orders(_)
Orders(S) ==
    IF S = {} THEN {<<>>}
    ELSE UNION {{<<x>> \o t : t \in Orders(S \ {x})} : x \in S}

\* sort.Slice(s, less): s ordered by less, which is given as the table of
\* less(i, j) over the indices of s. Elements that less does not order keep
\* their order; the program sorts only slices whose keys are distinct.
SortSlice(s, less) ==
    LET before(i, j) == less[i][j] \/ (~less[j][i] /\ i < j)
        rank(i) == 1 + Cardinality({j \in DOMAIN s : j # i /\ before(j, i)})
    IN [k \in DOMAIN s |-> s[CHOOSE i \in DOMAIN s : rank(i) = k]]

IntLess(x, y) == x < y

SortInts(s) ==
    SortSlice(s, [i \in DOMAIN s |-> [j \in DOMAIN s |-> IntLess(s[i], s[j])]])

SolutionLess(x, y) == x.AgentID < y.AgentID

\* SortSolutions that leaves the solutions in the order of their appends.
SortSolutions_NoSort(s) == s

SortSolutions(s) ==
    SortSlice(s, [i \in DOMAIN s |-> [j \in DOMAIN s |-> SolutionLess(s[i], s[j])]])

\* CritiqueLess that compares the agent IDs only.
CritiqueLess_AgentOnly(x, y) == x.AgentID < y.AgentID

CritiqueLess(x, y) ==
    IF x.Round # y.Round THEN x.Round < y.Round ELSE x.AgentID < y.AgentID

SortCritiques(s) ==
    SortSlice(s, [i \in DOMAIN s |-> [j \in DOMAIN s |-> CritiqueLess(s[i], s[j])]])

VoteLess(x, y) == x.VoterID < y.VoterID

\* SortVotes that leaves the votes in the order of their appends.
SortVotes_NoSort(s) == s

SortVotes(s) ==
    SortSlice(s, [i \in DOMAIN s |-> [j \in DOMAIN s |-> VoteLess(s[i], s[j])]])

\* The elements of a sequence.
Range(s) == {s[i] : i \in DOMAIN s}

\* The sum of a sequence of integers.
RECURSIVE SumSeq(_)
SumSeq(s) == IF s = <<>> THEN 0 ELSE Head(s) + SumSeq(Tail(s))

\* ------------------------------------------------------------- parsing

\* The tokens of a response.
Tok(x) == [tok |-> x]

LBrace == Tok("{")

RBrace == Tok("}")

Fence == Tok("fence")

JsonTag == Tok("json")

Text == Tok("t")

\* The member list of a JSON object, as one token.
Members(o) == [tok |-> "members", obj |-> o]

\* The positions of token t in s.
Positions(s, t) == {i \in DOMAIN s : s[i] = t}

Min(S) == CHOOSE x \in S : \A y \in S : x <= y

Max(S) == CHOOSE x \in S : \A y \in S : x >= y

\* The first fenced block's inner text (after the optional json tag), or s
\* itself when s holds no two fences.
FencedInner(s) ==
    LET f == Positions(s, Fence) IN
    IF Cardinality(f) < 2 THEN s
    ELSE LET open  == Min(f)
             close == Min(f \ {open})
             from  == IF open + 1 < close /\ s[open + 1] = JsonTag
                      THEN open + 2 ELSE open + 1
         IN SubSeq(s, from, close - 1)

\* extractJSON that stops at the first "}".
extractJSON_FirstClose(s) ==
    LET body  == FencedInner(s)
        opens == Positions(body, LBrace)
        closes == Positions(body, RBrace)
    IN IF opens = {} \/ closes = {} \/ Max(closes) <= Min(opens) THEN <<>>
       ELSE SubSeq(body, Min(opens), Min({c \in closes : c > Min(opens)}))

\* extractJSON: from the first "{" to the last "}" of the fenced block or of
\* the whole text; the empty string when there is no such span.
extractJSON(s) ==
    LET body  == FencedInner(s)
        opens == Positions(body, LBrace)
        closes == Positions(body, RBrace)
    IN IF opens = {} \/ closes = {} \/ Max(closes) <= Min(opens) THEN <<>>
       ELSE SubSeq(body, Min(opens), Max(closes))

\* json.Unmarshal into voteResponse: an object's members, a missing field
\* left at its zero value; anything else is a decoding error.
jsonUnmarshal(p) ==
    IF p = <<LBrace, RBrace>>
    THEN [ok |-> TRUE, Rankings |-> <<>>, Reasoning |-> ""]
    ELSE IF Len(p) = 3 /\ p[1] = LBrace /\ p[3] = RBrace /\ p[2].tok = "members"
    THEN [ok |-> TRUE,
          Rankings  |-> IF "rankings" \in DOMAIN p[2].obj
                        THEN p[2].obj.rankings ELSE <<>>,
          Reasoning |-> IF "reasoning" \in DOMAIN p[2].obj
                        THEN p[2].obj.reasoning ELSE ""]
    ELSE [ok |-> FALSE, Rankings |-> <<>>, Reasoning |-> ""]

NoVote == [VoterID |-> NilID, Rankings |-> <<>>, Reasoning |-> ""]

ParseFailure(why) == [ok |-> FALSE, err |-> why, vote |-> NoVote]

\* parseVote without its loop that rejects a ranking of the voter itself.
parseVote_NoSelfCheck(id, total, response) ==
    LET jsonStr  == extractJSON(response)
        voteResp == jsonUnmarshal(jsonStr)
    IN IF jsonStr = <<>> THEN ParseFailure("no JSON found in response")
       ELSE IF ~voteResp.ok THEN ParseFailure("failed to parse vote JSON")
       ELSE IF \E i \in DOMAIN voteResp.Rankings :
                   voteResp.Rankings[i] < 1 \/ voteResp.Rankings[i] > total
       THEN ParseFailure("invalid agent ID in rankings")
       ELSE [ok |-> TRUE, err |-> "",
             vote |-> [VoterID |-> id, Rankings |-> voteResp.Rankings,
                       Reasoning |-> voteResp.Reasoning]]

\* parseVote without its loop that rejects an agent ID outside 1..total.
parseVote_NoRangeCheck(id, total, response) ==
    LET jsonStr  == extractJSON(response)
        voteResp == jsonUnmarshal(jsonStr)
    IN IF jsonStr = <<>> THEN ParseFailure("no JSON found in response")
       ELSE IF ~voteResp.ok THEN ParseFailure("failed to parse vote JSON")
       ELSE IF \E i \in DOMAIN voteResp.Rankings : voteResp.Rankings[i] = id
       THEN ParseFailure("voted for their own solution")
       ELSE [ok |-> TRUE, err |-> "",
             vote |-> [VoterID |-> id, Rankings |-> voteResp.Rankings,
                       Reasoning |-> voteResp.Reasoning]]

\* parseVote that drops the rankings it should reject.
parseVote_DropsInvalid(id, total, response) ==
    LET jsonStr  == extractJSON(response)
        voteResp == jsonUnmarshal(jsonStr)
        Valid(x) == x # id /\ x >= 1 /\ x <= total
    IN IF jsonStr = <<>> THEN ParseFailure("no JSON found in response")
       ELSE IF ~voteResp.ok THEN ParseFailure("failed to parse vote JSON")
       ELSE [ok |-> TRUE, err |-> "",
             vote |-> [VoterID |-> id,
                       Rankings |-> SelectSeq(voteResp.Rankings, Valid),
                       Reasoning |-> voteResp.Reasoning]]

\* parseVote that takes an empty ranking list for a failure.
parseVote_RejectsEmpty(id, total, response) ==
    LET jsonStr  == extractJSON(response)
        voteResp == jsonUnmarshal(jsonStr)
    IN IF jsonStr = <<>> THEN ParseFailure("no JSON found in response")
       ELSE IF ~voteResp.ok THEN ParseFailure("failed to parse vote JSON")
       ELSE IF voteResp.Rankings = <<>> THEN ParseFailure("no rankings")
       ELSE IF \E i \in DOMAIN voteResp.Rankings : voteResp.Rankings[i] = id
       THEN ParseFailure("voted for their own solution")
       ELSE IF \E i \in DOMAIN voteResp.Rankings :
                   voteResp.Rankings[i] < 1 \/ voteResp.Rankings[i] > total
       THEN ParseFailure("invalid agent ID in rankings")
       ELSE [ok |-> TRUE, err |-> "",
             vote |-> [VoterID |-> id, Rankings |-> voteResp.Rankings,
                       Reasoning |-> voteResp.Reasoning]]

\* parseVote with its two validation loops in the other order.
parseVote_RangeFirst(id, total, response) ==
    LET jsonStr  == extractJSON(response)
        voteResp == jsonUnmarshal(jsonStr)
    IN IF jsonStr = <<>> THEN ParseFailure("no JSON found in response")
       ELSE IF ~voteResp.ok THEN ParseFailure("failed to parse vote JSON")
       ELSE IF \E i \in DOMAIN voteResp.Rankings :
                   voteResp.Rankings[i] < 1 \/ voteResp.Rankings[i] > total
       THEN ParseFailure("invalid agent ID in rankings")
       ELSE IF \E i \in DOMAIN voteResp.Rankings : voteResp.Rankings[i] = id
       THEN ParseFailure("voted for their own solution")
       ELSE [ok |-> TRUE, err |-> "",
             vote |-> [VoterID |-> id, Rankings |-> voteResp.Rankings,
                       Reasoning |-> voteResp.Reasoning]]

\* Agent.parseVote for agent id of total agents.
parseVote(id, total, response) ==
    LET jsonStr  == extractJSON(response)
        voteResp == jsonUnmarshal(jsonStr)
    IN IF jsonStr = <<>> THEN ParseFailure("no JSON found in response")
       ELSE IF ~voteResp.ok THEN ParseFailure("failed to parse vote JSON")
       ELSE IF \E i \in DOMAIN voteResp.Rankings : voteResp.Rankings[i] = id
       THEN ParseFailure("voted for their own solution")
       ELSE IF \E i \in DOMAIN voteResp.Rankings :
                   voteResp.Rankings[i] < 1 \/ voteResp.Rankings[i] > total
       THEN ParseFailure("invalid agent ID in rankings")
       ELSE [ok |-> TRUE, err |-> "",
             vote |-> [VoterID |-> id, Rankings |-> voteResp.Rankings,
                       Reasoning |-> voteResp.Reasoning]]

\* Client.SendMessage as its callers see it: a text or an error.
SendError == [err |-> TRUE, text |-> <<>>]

SendText(t) == [err |-> FALSE, text |-> t]

\* The error Agent.Vote wraps a failed send in.
SendFailed == "failed to generate vote"

\* Agent.Vote: a failed send is returned as it is, a text is parsed.
AgentVote(id, total, sent) ==
    IF sent.err THEN ParseFailure(SendFailed)
    ELSE parseVote(id, total, sent.text)

\* EmptyVote without the placeholder reasoning.
EmptyVote_NoPlaceholder(id) == [VoterID |-> id, Rankings |-> <<>>, Reasoning |-> ""]

\* The vote Council.Vote records when the retry failed too.
EmptyVote(id) == [VoterID |-> id, Rankings |-> <<>>, Reasoning |-> FailedReasoning]

\* ------------------------------------------------------ model responses

\* The agent IDs a decoded ranking may name: 0 and n+1 are out of range.
RankIDs(n) == 0..(n + 1)

JSONObject(r) == <<LBrace, Members([rankings |-> r, reasoning |-> "because"]), RBrace>>

\* The texts a vote request may be answered with: every ranking list up to
\* len, the short ones also in a fenced block, an object with no rankings
\* field, text with no braces, and braces around text that is no JSON.
VoteTexts(n, len) ==
    {JSONObject(r) : r \in SeqsUpTo(RankIDs(n), len)}
    \cup {<<Text, Fence, JsonTag>> \o JSONObject(r) \o <<Fence>> :
             r \in SeqsUpTo(RankIDs(n), 1)}
    \cup {<<LBrace, Members([reasoning |-> "because"]), RBrace>>,
          <<Text>>, <<LBrace, Text, RBrace>>}

\* What one SendMessage of a vote request may return.
VoteReplies(n, len) == {SendError} \cup {SendText(t) : t \in VoteTexts(n, len)}

\* What one Agent.Vote call of agent id may return, over those replies.
VoteResults(id, n, len) == {AgentVote(id, n, reply) : reply \in VoteReplies(n, len)}

\* One Agent.Vote call of agent id on a reply: what it returned, whether it
\* failed in the Gateway, and whether the reply decodes to an object with no
\* or an empty rankings list, with the reasoning it then carries.
VoteOutcome(id, n, reply) ==
    LET d == IF reply.err THEN jsonUnmarshal(<<>>)
             ELSE jsonUnmarshal(extractJSON(reply.text))
    IN [res |-> AgentVote(id, n, reply), gateway |-> reply.err,
        empty |-> d.ok /\ d.Rankings = <<>>,
        reasoning |-> IF d.ok /\ d.Rankings = <<>> THEN d.Reasoning ELSE ""]

\* The outcomes of one Agent.Vote call for every agent count and agent of a
\* concurrent run.
RunVoteOutcomes ==
    [n \in AgentCounts |->
        [id \in 1..n |->
            {VoteOutcome(id, n, reply) : reply \in VoteReplies(n, MaxRankLen)}]]

\* The goroutine's locals after a first call that failed: no vote, and an
\* err that came from the Gateway or from parseVote.
FirstError(o) == [AgentID |-> NilID, gateway |-> o.gateway]

\* What an Agent.Vote call leaves in the goroutine's log of calls.
VoteCall(req, o) ==
    [req |-> req, ok |-> o.res.ok, empty |-> o.empty, reasoning |-> o.reasoning]

\* What one SendMessage of a generate or critique request may return.
TextReplies == {SendError, SendText(<<Text>>)}

\* -------------------------------------------------------------- tally

\* Points that counts positions from 1.
Points_OneBased(n, i) == n - i

\* The points of 0-indexed position i among n agents.
Points(n, i) == n - 1 - i

\* AddRankings without the test points > 0.
RECURSIVE AddRankings_NoGuard(_, _, _, _)
AddRankings_NoGuard(scores, rankings, i, n) ==
    IF i > Len(rankings) THEN scores
    ELSE AddRankings_NoGuard(
             MapSet(scores, rankings[i],
                    MapGet(scores, rankings[i]) + Points(n, i - 1)),
             rankings, i + 1, n)

\* Tally's inner loop over one vote's rankings, from position i (1-indexed).
RECURSIVE AddRankings(_, _, _, _)
AddRankings(scores, rankings, i, n) ==
    IF i > Len(rankings) THEN scores
    ELSE AddRankings(
             IF Points(n, i - 1) > 0
             THEN MapSet(scores, rankings[i],
                         MapGet(scores, rankings[i]) + Points(n, i - 1))
             ELSE scores,
             rankings, i + 1, n)

\* Tally's outer loop over the votes.
RECURSIVE AddVotes(_, _, _)
AddVotes(scores, votes, n) ==
    IF votes = <<>> THEN scores
    ELSE AddVotes(AddRankings(scores, Head(votes).Rankings, 1, n), Tail(votes), n)

\* SeedScores that seeds nothing: a score exists only once a vote adds to it.
SeedScores_NoSeed(scores, n) == scores

\* Tally's first loop: every agent's score starts at 0.
SeedScores(scores, n) ==
    [x \in (DOMAIN scores) \cup (1..n) |-> IF x \in 1..n THEN 0 ELSE scores[x]]

\* MaxScore whose search starts at 1.
MaxScore_StartsAtOne(scores) == Max({scores[k] : k \in DOMAIN scores} \cup {1})

\* Tally's search for the maximum, which starts at 0.
MaxScore(scores) == Max({scores[k] : k \in DOMAIN scores} \cup {0})

\* The keys Tally collects as winners.
WinnerSet(scores) == {k \in DOMAIN scores : scores[k] = MaxScore(scores)}

\* The scores Tally computes.
TallyScores(sess, n) == AddVotes(SeedScores(sess.Scores, n), sess.Votes, n)

\* Tally that breaks a tie in favour of the first winner it collected.
Tally_BreaksTies(sess, n, order) ==
    LET scores  == AddVotes(SeedScores(sess.Scores, n), sess.Votes, n)
        winners == SortInts(order)
    IN IF Len(winners) >= 1
       THEN [sess EXCEPT !.Scores = scores, !.WinnerID = winners[1],
                         !.IsTie = FALSE, !.TiedAgents = <<>>]
       ELSE [sess EXCEPT !.Scores = scores, !.WinnerID = NilID,
                         !.IsTie = TRUE, !.TiedAgents = winners]

\* Tally that reports a tie whatever the number of winners.
Tally_AlwaysTie(sess, n, order) ==
    LET scores  == TallyScores(sess, n)
        winners == SortInts(order)
    IN [sess EXCEPT !.Scores = scores, !.WinnerID = NilID,
                    !.IsTie = TRUE, !.TiedAgents = winners]

\* Council.Tally; order is the order in which the map iteration met the
\* winners.
Tally(sess, n, order) ==
    LET scores  == TallyScores(sess, n)
        winners == SortInts(order)
    IN IF Len(winners) = 1
       THEN [sess EXCEPT !.Scores = scores, !.WinnerID = winners[1],
                         !.IsTie = FALSE, !.TiedAgents = <<>>]
       ELSE [sess EXCEPT !.Scores = scores, !.WinnerID = NilID,
                         !.IsTie = TRUE, !.TiedAgents = winners]


\* ------------------------------------------------ the Gateway client

maxRetries == 3

baseRetryDelay == 1

StatusTooManyRequests == 429

\* A Go error: its message, the HTTP status of an *APIError (0 otherwise) and
\* the error it wraps, as a sequence of none or one.
Error(msg, status, cause) == [msg |-> msg, status |-> status, cause |-> cause]

\* The *APIError doRequest builds from a response whose status is not 200.
APIError(status) == Error("API error", status, <<>>)

\* ctx.Err() of a cancelled context.
ErrCanceled == Error("context canceled", 0, <<>>)

\* A failure of the transport: no response was read.
ErrNetwork == Error("connection failed", 0, <<>>)

\* doRequest's wrapping of an error of httpClient.Do.
RequestFailed(cause) == Error("request failed", 0, <<cause>>)

\* errors.Is: err is target or wraps it.
RECURSIVE ErrorsIs(_, _)
ErrorsIs(err, target) ==
    \/ err = target
    \/ err.cause # <<>> /\ ErrorsIs(err.cause[1], target)

\* isRateLimitError that takes every *APIError for a rate limit.
isRateLimitError_AnyAPIError(err) == err.msg = "API error"

\* isRateLimitError: err is an *APIError with status 429.
isRateLimitError(err) ==
    err.msg = "API error" /\ err.status = StatusTooManyRequests

\* A response doRequest returns without an error.
Response == [ok |-> TRUE, err |-> <<>>]

\* doRequest returning the error e.
Failure(e) == [ok |-> FALSE, err |-> <<e>>]

\* What doRequest may return for a request that was sent: a response, an
\* *APIError for a status other than 200, or a transport failure.
Outcomes ==
    {Response, Failure(RequestFailed(ErrNetwork))}
    \cup {Failure(APIError(st)) : st \in {StatusTooManyRequests, 400, 401, 500}}

\* What doRequest returns under a cancelled context.
Canceled == Failure(RequestFailed(ErrCanceled))

\* SendMessage returning (text, err).
Returned(text, err) == <<[text |-> text, err |-> err]>>

\* No SendMessage call in progress.
NoSend ==
    [pc |-> "idle", attempt |-> 0, requests |-> 0, replies |-> <<>>,
     waits |-> <<>>, delay |-> 0, elapsed |-> 0, lastErr |-> <<>>,
     result |-> <<>>, cancelledIn |-> ""]

\* SendMessage's delay before the retry that follows attempt: 1 << attempt
\* times the base delay.
Delay_NoDoubling(attempt) == baseRetryDelay

Delay(attempt) == baseRetryDelay * (2 ^ attempt)

\* -------------------------------------------------------------- state

VARIABLES
    config,    \* types.Config: AgentCount, Rounds, Save
    session,   \* types.Session, the result every phase appends to
    stored,    \* what storage holds: <<>> or <<the saved session>>
    runPc,     \* where Council.Run is
    round,     \* Run's loop variable
    runErr,    \* what Run returned
    taskPc,    \* where each agent's goroutine of the current phase is
    taskVal,   \* each goroutine's local solution, critique or vote
    mu,        \* the phase's mutex: its holder, or NilID
    errChan,   \* the phase's error channel
    voteLog,   \* per running vote goroutine, its Agent.Vote calls so far
    ctxDone,   \* whether the run's context has been cancelled
    cancelledAt, \* where Run was when the context was cancelled, "" before
    apiKey,    \* whether ANTHROPIC_API_KEY is set in the environment
    requested, \* whether a Gateway call has been made
    send,      \* one Client.SendMessage call: its position and its history
    warnings,  \* the warnings Vote has printed: the agents they name
    parse      \* one parseVote call: its arguments and what it returned

vars == <<config, session, stored, runPc, round, runErr,
          taskPc, taskVal, mu, errChan, voteLog, ctxDone, cancelledAt,
          apiKey, requested, send, warnings, parse>>

Agents == 1..config.AgentCount

NoError == [msg |-> "", errs |-> <<>>]

\* council.New: the session of a new Council.
NewSession(cfg) ==
    [Task |-> "task", AgentCount |-> cfg.AgentCount, Rounds |-> cfg.Rounds,
     Solutions |-> <<>>, Critiques |-> <<>>, Votes |-> <<>>,
     Scores |-> EmptyMap, WinnerID |-> NilID, IsTie |-> FALSE,
     TiedAgents |-> <<>>, CompletedAt |-> ZeroTime]

\* The configurations of a run that passed validateRun; what they print
\* under --verbose is left out where nothing reads it.
Configs ==
    [AgentCount : AgentCounts, Rounds : RoundCounts, Save : BOOLEAN,
     Verbose : {FALSE}]

NoTaskVal == [AgentID |-> NilID]

\* The flags of `council run`, valid or not, --verbose at its default.
RunConfigs ==
    [AgentCount : (MinAgents - 1)..MaxAgents, Rounds : (MinRounds - 1)..MaxRounds,
     Save : BOOLEAN, Verbose : {FALSE}]

\* The zero Session: no Council has been built.
NilSession ==
    [Task |-> "", AgentCount |-> 0, Rounds |-> 0,
     Solutions |-> <<>>, Critiques |-> <<>>, Votes |-> <<>>,
     Scores |-> EmptyMap, WinnerID |-> NilID, IsTie |-> FALSE,
     TiedAgents |-> <<>>, CompletedAt |-> ZeroTime]

\* No parseVote call is being followed.
NoParse ==
    [pc |-> "idle", id |-> NilID, total |-> 0, response |-> <<>>,
     jsonStr |-> <<>>, again |-> <<>>, result |-> ParseFailure("")]

\* `council run` is called with some flags and some environment.
Init ==
    /\ config \in RunConfigs
    /\ apiKey \in BOOLEAN
    /\ session = NilSession
    /\ stored = <<>>
    /\ runPc = "main"
    /\ round = 0
    /\ runErr = NoError
    /\ taskPc = [a \in Agents |-> "idle"]
    /\ taskVal = [a \in Agents |-> NoTaskVal]
    /\ mu = NilID
    /\ errChan = <<>>
    /\ voteLog = [a \in Agents |-> <<>>]
    /\ ctxDone = FALSE
    /\ cancelledAt = ""
    /\ requested = FALSE
    /\ send = NoSend
    /\ warnings = {}
    /\ parse = NoParse

\* validateRun that checks the credential only.
validateRun_NoCountChecks(cfg, key) ==
    IF ~key THEN "ANTHROPIC_API_KEY environment variable not set" ELSE ""

\* validateRun: the message of the error it returns, "" for nil.
validateRun(cfg, key) ==
    IF ~key THEN "ANTHROPIC_API_KEY environment variable not set"
    ELSE IF cfg.AgentCount < MinAgents THEN "minimum 3 agents required"
    ELSE IF cfg.Rounds < MinRounds THEN "minimum 1 discussion round required"
    ELSE ""

\* The command's PreRunE: on an error the command ends without runCouncil.
ValidateRun ==
    /\ runPc = "main"
    /\ IF validateRun(config, apiKey) # ""
       THEN /\ runPc' = "rejected"
            /\ runErr' = [msg |-> validateRun(config, apiKey), errs |-> <<>>]
       ELSE /\ runPc' = "new"
            /\ UNCHANGED runErr
    /\ UNCHANGED <<config, parse, warnings, apiKey, requested, cancelledAt,
                   ctxDone, send, session, stored, round, taskPc, taskVal, mu,
                   errChan, voteLog>>

\* runCouncil calls council.New, which fails without the credential and
\* otherwise builds the Council that Run is called on.
New ==
    /\ runPc = "new"
    /\ IF ~apiKey
       THEN /\ runPc' = "rejected"
            /\ runErr' = [msg |-> "ANTHROPIC_API_KEY environment variable not set",
                          errs |-> <<>>]
            /\ UNCHANGED session
       ELSE /\ runPc' = "start"
            /\ session' = NewSession(config)
            /\ UNCHANGED runErr
    /\ UNCHANGED <<config, parse, warnings, apiKey, requested, cancelledAt,
                   ctxDone, send, stored, round, taskPc, taskVal, mu, errChan,
                   voteLog>>

\* ------------------------------------------- the goroutines of a phase

\* The loop that starts one goroutine per agent, with a fresh mutex and a
\* fresh error channel.
Spawn ==
    /\ taskPc' = [a \in Agents |-> "call"]
    /\ taskVal' = [a \in Agents |-> NoTaskVal]
    /\ mu' = NilID
    /\ errChan' = <<>>

\* Joined without the wait: the phase goes on while goroutines still run.
Joined_NoWait == TRUE

\* wg.Wait() returns: every goroutine has run its deferred wg.Done().
Joined == \A a \in Agents : taskPc[a] = "done"

\* ChanSend on an unbuffered channel: nothing receives before wg.Wait()
\* has returned, so the send is never ready.
ChanSend_Unbuffered(a, to) ==
    /\ taskPc[a] = "senderr"
    /\ Len(errChan) < 0
    /\ errChan' = Append(errChan, a)
    /\ taskPc' = [taskPc EXCEPT ![a] = to]

\* errChan <- err on a channel of capacity len(c.agents).
ChanSend(a, to) ==
    /\ taskPc[a] = "senderr"
    /\ Len(errChan) < Cardinality(Agents)
    /\ errChan' = Append(errChan, a)
    /\ taskPc' = [taskPc EXCEPT ![a] = to]

\* Lock that does not wait for the mutex to be free.
Lock_NoMutex(a) ==
    /\ taskPc[a] = "lock"
    /\ mu' = a
    /\ taskPc' = [taskPc EXCEPT ![a] = "append"]

\* mu.Lock()
Lock(a) ==
    /\ taskPc[a] = "lock"
    /\ mu = NilID
    /\ mu' = a
    /\ taskPc' = [taskPc EXCEPT ![a] = "append"]

\* The holder's way out of the critical section: mu.Unlock(), the verbose
\* print and the deferred wg.Done().
Unlock(a) ==
    /\ taskPc[a] = "append"
    /\ mu = a
    /\ mu' = NilID
    /\ taskPc' = [taskPc EXCEPT ![a] = "done"]

\* What is left of a phase's goroutines once the phase has returned.
PhaseOver ==
    /\ taskPc' = [a \in Agents |-> "idle"]
    /\ taskVal' = [a \in Agents |-> NoTaskVal]
    /\ mu' = NilID
    /\ errChan' = <<>>

\* ----------------------------------------------------------- Generate

\* Run calls Generate, which starts the goroutines and waits.
RunGenerate ==
    /\ runPc = "start"
    /\ runPc' = "generating"
    /\ Spawn
    /\ UNCHANGED <<config, parse, warnings, apiKey, requested, cancelledAt,
                   ctxDone, send, session, stored, round, runErr, voteLog>>

\* A goroutine's GenerateSolution call returns.
GenerateCall(a) ==
    /\ runPc = "generating"
    /\ taskPc[a] = "call"
    /\ \E reply \in TextReplies :
          /\ ctxDone => reply.err
          /\ IF reply.err
             THEN /\ taskPc' = [taskPc EXCEPT ![a] = "senderr"]
                  /\ UNCHANGED taskVal
             ELSE /\ taskPc' = [taskPc EXCEPT ![a] = "lock"]
                  /\ taskVal' = [taskVal EXCEPT
                                    ![a] = [AgentID |-> a, Content |-> reply.text]]
    /\ requested' = TRUE
    /\ UNCHANGED <<config, parse, warnings, apiKey, cancelledAt, ctxDone,
                   send, session, stored, runPc, round, runErr, mu, errChan,
                   voteLog>>

GenerateSendErr(a) ==
    /\ runPc = "generating"
    /\ ChanSend(a, "done")
    /\ UNCHANGED <<config, parse, warnings, apiKey, requested, cancelledAt,
                   ctxDone, send, session, stored, runPc, round, runErr,
                   taskVal, mu, voteLog>>

GenerateLock(a) ==
    /\ runPc = "generating"
    /\ Lock(a)
    /\ UNCHANGED <<config, parse, warnings, apiKey, requested, cancelledAt,
                   ctxDone, send, session, stored, runPc, round, runErr,
                   taskVal, errChan, voteLog>>

GenerateAppend(a) ==
    /\ runPc = "generating"
    /\ session' = [session EXCEPT !.Solutions = Append(@, taskVal[a])]
    /\ Unlock(a)
    /\ UNCHANGED voteLog
    /\ UNCHANGED <<config, parse, warnings, apiKey, requested, cancelledAt,
                   ctxDone, send, stored, runPc, round, runErr, taskVal,
                   errChan>>

\* GenerateJoin that drains the errors without returning them, as Vote does.
GenerateJoin_IgnoresErrors ==
    /\ runPc = "generating"
    /\ \A a \in DOMAIN taskPc : taskPc[a] = "done"
    /\ session' = [session EXCEPT !.Solutions = SortSolutions(@)]
    /\ runPc' = "discuss"
    /\ round' = 1
    /\ taskPc' = [a \in DOMAIN taskPc |-> "idle"]
    /\ taskVal' = [a \in DOMAIN taskPc |-> [AgentID |-> NilID]]
    /\ mu' = NilID
    /\ errChan' = <<>>
    /\ UNCHANGED <<config, parse, warnings, apiKey, requested, cancelledAt,
                   ctxDone, send, stored, runErr, voteLog>>

\* GenerateJoin that sorts the solutions before it looks at the errors.
GenerateJoin_SortsFirst ==
    /\ runPc = "generating"
    /\ Joined
    /\ session' = [session EXCEPT !.Solutions = SortSolutions(@)]
    /\ IF errChan # <<>>
       THEN /\ runPc' = "returned"
            /\ runErr' = [msg |-> "generation phase failed", errs |-> errChan]
            /\ UNCHANGED round
       ELSE /\ runPc' = "discuss"
            /\ round' = 1
            /\ UNCHANGED runErr
    /\ PhaseOver
    /\ UNCHANGED <<config, parse, warnings, apiKey, requested, cancelledAt,
                   ctxDone, send, stored, voteLog>>

\* Generate after wg.Wait(): it returns the collected errors, or sorts the
\* solutions; on an error Run returns, otherwise it enters its round loop.
GenerateJoin ==
    /\ runPc = "generating"
    /\ Joined
    /\ IF errChan # <<>>
       THEN /\ runPc' = "returned"
            /\ runErr' = [msg |-> "generation phase failed", errs |-> errChan]
            /\ UNCHANGED <<session, round>>
       ELSE /\ session' = [session EXCEPT !.Solutions = SortSolutions(@)]
            /\ runPc' = "discuss"
            /\ round' = 1
            /\ UNCHANGED runErr
    /\ PhaseOver
    /\ UNCHANGED <<config, parse, warnings, apiKey, requested, cancelledAt,
                   ctxDone, send, stored, voteLog>>

\* ------------------------------------------------------------ Discuss

\* RunDiscuss that starts every round from an empty list of critiques.
RunDiscuss_ResetsCritiques ==
    /\ runPc = "discuss"
    /\ round <= config.Rounds
    /\ runPc' = "discussing"
    /\ session' = [session EXCEPT !.Critiques = <<>>]
    /\ Spawn
    /\ UNCHANGED <<config, parse, warnings, apiKey, requested, cancelledAt,
                   ctxDone, send, stored, round, runErr, voteLog>>

\* Run's loop calls Discuss(round), which starts the goroutines and waits.
RunDiscuss ==
    /\ runPc = "discuss"
    /\ round <= config.Rounds
    /\ runPc' = "discussing"
    /\ Spawn
    /\ UNCHANGED <<config, parse, warnings, apiKey, requested, cancelledAt,
                   ctxDone, send, session, stored, round, runErr, voteLog>>

\* A goroutine's Critique call returns.
DiscussCall(a) ==
    /\ runPc = "discussing"
    /\ taskPc[a] = "call"
    /\ \E reply \in TextReplies :
          /\ ctxDone => reply.err
          /\ IF reply.err
             THEN /\ taskPc' = [taskPc EXCEPT ![a] = "senderr"]
                  /\ UNCHANGED taskVal
             ELSE /\ taskPc' = [taskPc EXCEPT ![a] = "lock"]
                  /\ taskVal' = [taskVal EXCEPT
                                    ![a] = [AgentID |-> a, Round |-> round,
                                            Content |-> reply.text]]
    /\ requested' = TRUE
    /\ UNCHANGED <<config, parse, warnings, apiKey, cancelledAt, ctxDone,
                   send, session, stored, runPc, round, runErr, mu, errChan,
                   voteLog>>

DiscussSendErr(a) ==
    /\ runPc = "discussing"
    /\ ChanSend(a, "done")
    /\ UNCHANGED <<config, parse, warnings, apiKey, requested, cancelledAt,
                   ctxDone, send, session, stored, runPc, round, runErr,
                   taskVal, mu, voteLog>>

DiscussLock(a) ==
    /\ runPc = "discussing"
    /\ Lock(a)
    /\ UNCHANGED <<config, parse, warnings, apiKey, requested, cancelledAt,
                   ctxDone, send, session, stored, runPc, round, runErr,
                   taskVal, errChan, voteLog>>

DiscussAppend(a) ==
    /\ runPc = "discussing"
    /\ session' = [session EXCEPT !.Critiques = Append(@, taskVal[a])]
    /\ Unlock(a)
    /\ UNCHANGED voteLog
    /\ UNCHANGED <<config, parse, warnings, apiKey, requested, cancelledAt,
                   ctxDone, send, stored, runPc, round, runErr, taskVal,
                   errChan>>

\* DiscussJoin that returns the first error only.
DiscussJoin_FirstErrorOnly ==
    /\ runPc = "discussing"
    /\ Joined
    /\ IF errChan # <<>>
       THEN /\ runPc' = "returned"
            /\ runErr' = [msg |-> "discussion phase failed",
                          errs |-> <<Head(errChan)>>]
            /\ UNCHANGED <<session, round>>
       ELSE /\ session' = [session EXCEPT !.Critiques = SortCritiques(@)]
            /\ runPc' = "discuss"
            /\ round' = round + 1
            /\ UNCHANGED runErr
    /\ PhaseOver
    /\ UNCHANGED <<config, parse, warnings, apiKey, requested, cancelledAt,
                   ctxDone, send, stored, voteLog>>

\* Discuss after wg.Wait(): it returns the collected errors, or sorts the
\* critiques; on an error Run returns, otherwise its loop goes on.
DiscussJoin ==
    /\ runPc = "discussing"
    /\ Joined
    /\ IF errChan # <<>>
       THEN /\ runPc' = "returned"
            /\ runErr' = [msg |-> "discussion phase failed", errs |-> errChan]
            /\ UNCHANGED <<session, round>>
       ELSE /\ session' = [session EXCEPT !.Critiques = SortCritiques(@)]
            /\ runPc' = "discuss"
            /\ round' = round + 1
            /\ UNCHANGED runErr
    /\ PhaseOver
    /\ UNCHANGED <<config, parse, warnings, apiKey, requested, cancelledAt,
                   ctxDone, send, stored, voteLog>>

\* --------------------------------------------------------------- Vote

\* Run's loop is over; it calls Vote, which starts the goroutines and waits.
RunVote ==
    /\ runPc = "discuss"
    /\ round > config.Rounds
    /\ runPc' = "voting"
    /\ Spawn
    /\ UNCHANGED <<config, parse, warnings, apiKey, requested, cancelledAt,
                   ctxDone, send, session, stored, round, runErr, voteLog>>

\* VoteRequest that also hands over the votes collected so far.
VoteRequest_SeesVotes ==
    [task |-> session.Task, solutions |-> session.Solutions,
     critiques |-> session.Critiques \o session.Votes]

\* The arguments of an Agent.Vote call, read from the session.
VoteRequest ==
    [task |-> session.Task, solutions |-> session.Solutions,
     critiques |-> session.Critiques]

\* VoteFirst that records the empty vote at once, without the second call.
VoteFirst_NoRetry(a) ==
    /\ runPc = "voting"
    /\ taskPc[a] = "call"
    /\ \E o \in RunVoteOutcomes[config.AgentCount][a] :
          /\ ctxDone => o.gateway
          /\ voteLog' = [voteLog EXCEPT
                            ![a] = Append(@, VoteCall(VoteRequest, o))]
          /\ IF o.res.ok
             THEN /\ taskVal' = [taskVal EXCEPT ![a] = o.res.vote]
                  /\ taskPc' = [taskPc EXCEPT ![a] = "lock"]
             ELSE /\ taskVal' = [taskVal EXCEPT ![a] = EmptyVote(a)]
                  /\ taskPc' = [taskPc EXCEPT ![a] = "senderr"]
    /\ requested' = TRUE
    /\ UNCHANGED <<config, parse, warnings, apiKey, cancelledAt, ctxDone,
                   send, session, stored, runPc, round, runErr, mu, errChan>>

\* A goroutine's first Agent.Vote call returns.
VoteFirst(a) ==
    /\ runPc = "voting"
    /\ taskPc[a] = "call"
    /\ \E o \in RunVoteOutcomes[config.AgentCount][a] :
          /\ ctxDone => o.gateway
          /\ voteLog' = [voteLog EXCEPT
                            ![a] = Append(@, VoteCall(VoteRequest, o))]
          /\ IF o.res.ok
             THEN /\ taskVal' = [taskVal EXCEPT ![a] = o.res.vote]
                  /\ taskPc' = [taskPc EXCEPT ![a] = "lock"]
             ELSE /\ taskVal' = [taskVal EXCEPT ![a] = FirstError(o)]
                  /\ taskPc' = [taskPc EXCEPT ![a] = "retry"]
    /\ requested' = TRUE
    /\ UNCHANGED <<config, parse, warnings, apiKey, cancelledAt, ctxDone,
                   send, session, stored, runPc, round, runErr, mu, errChan>>

\* The second Agent.Vote call, made after the first returned an error,
\* returns; after a second error the vote is the empty vote.
VoteRetry(a) ==
    /\ runPc = "voting"
    /\ taskPc[a] = "retry"
    /\ \E o \in RunVoteOutcomes[config.AgentCount][a] :
          /\ ctxDone => o.gateway
          /\ voteLog' = [voteLog EXCEPT
                            ![a] = Append(@, VoteCall(VoteRequest, o))]
          /\ IF o.res.ok
             THEN /\ taskVal' = [taskVal EXCEPT ![a] = o.res.vote]
                  /\ taskPc' = [taskPc EXCEPT ![a] = "lock"]
             ELSE /\ taskVal' = [taskVal EXCEPT ![a] = EmptyVote(a)]
                  /\ taskPc' = [taskPc EXCEPT ![a] = "senderr"]
    /\ requested' = TRUE
    /\ UNCHANGED <<config, parse, warnings, apiKey, cancelledAt, ctxDone,
                   send, session, stored, runPc, round, runErr, mu, errChan>>

\* VoteSendErr that returns after the send, as Generate and Discuss do.
VoteSendErr_Returns(a) ==
    /\ runPc = "voting"
    /\ ChanSend(a, "done")
    /\ UNCHANGED <<config, parse, warnings, apiKey, requested, cancelledAt,
                   ctxDone, send, session, stored, runPc, round, runErr,
                   taskVal, mu, voteLog>>

\* The goroutine sends the error of the failed retry and goes on to append
\* the empty vote.
VoteSendErr(a) ==
    /\ runPc = "voting"
    /\ ChanSend(a, "lock")
    /\ UNCHANGED <<config, parse, warnings, apiKey, requested, cancelledAt,
                   ctxDone, send, session, stored, runPc, round, runErr,
                   taskVal, mu, voteLog>>

VoteLock(a) ==
    /\ runPc = "voting"
    /\ Lock(a)
    /\ UNCHANGED <<config, parse, warnings, apiKey, requested, cancelledAt,
                   ctxDone, send, session, stored, runPc, round, runErr,
                   taskVal, errChan, voteLog>>

VoteAppend(a) ==
    /\ runPc = "voting"
    /\ session' = [session EXCEPT !.Votes = Append(@, taskVal[a])]
    /\ Unlock(a)
    /\ voteLog' = [voteLog EXCEPT ![a] = <<>>]
    /\ UNCHANGED <<config, parse, warnings, apiKey, requested, cancelledAt,
                   ctxDone, send, stored, runPc, round, runErr, taskVal,
                   errChan>>

\* VoteResult that returns the drained errors, as Generate and Discuss do.
VoteResult_ReturnsErrors(errs) ==
    IF errs # <<>> THEN [msg |-> "voting errors", errs |-> errs] ELSE NoError

\* What Vote returns for the errors it drained from the channel: nil.
VoteResult(errs) == NoError

\* The loop over the drained errors: each is printed as a warning, under
\* --verbose only. A warning is kept as the agent it names.
VoteWarnings(cfg, errs) == IF cfg.Verbose THEN Range(errs) ELSE {}

\* Vote after wg.Wait(): it drains the errors, prints them, sorts the votes
\* and returns.
VoteJoin ==
    /\ runPc = "voting"
    /\ Joined
    /\ warnings' = warnings \cup VoteWarnings(config, errChan)
    /\ IF VoteResult(errChan) # NoError
       THEN /\ runPc' = "returned"
            /\ runErr' = [msg |-> "voting phase failed", errs |-> errChan]
            /\ UNCHANGED session
       ELSE /\ session' = [session EXCEPT !.Votes = SortVotes(@)]
            /\ runPc' = "tally"
            /\ UNCHANGED runErr
    /\ PhaseOver
    /\ UNCHANGED <<config, parse, apiKey, requested, cancelledAt, ctxDone,
                   send, stored, round, voteLog>>

\* ------------------------------------------------------ Tally and save

\* Run calls Tally and sets CompletedAt.
RunTally ==
    /\ runPc = "tally"
    /\ \E order \in Orders(WinnerSet(TallyScores(session, config.AgentCount))) :
          session' = [Tally(session, config.AgentCount, order)
                         EXCEPT !.CompletedAt = Now]
    /\ runPc' = "save"
    /\ UNCHANGED <<config, parse, warnings, apiKey, requested, cancelledAt,
                   ctxDone, send, stored, round, runErr, taskPc, taskVal, mu,
                   errChan, voteLog>>

\* RunSave that returns saveSession's error instead of warning.
RunSave_FailureReturned ==
    /\ runPc = "save"
    /\ \E saved \in BOOLEAN :
          /\ stored' = IF config.Save /\ saved THEN <<session>> ELSE stored
          /\ runErr' = IF config.Save /\ ~saved
                       THEN [msg |-> "failed to save session", errs |-> <<>>]
                       ELSE NoError
    /\ runPc' = "returned"
    /\ UNCHANGED <<config, parse, warnings, apiKey, requested, cancelledAt,
                   ctxDone, send, session, round, taskPc, taskVal, mu,
                   errChan, voteLog>>

\* Run calls saveSession, warns when it failed, and returns nil.
RunSave ==
    /\ runPc = "save"
    /\ IF config.Save
       THEN \E saved \in BOOLEAN :
               stored' = IF saved THEN <<session>> ELSE stored
       ELSE UNCHANGED stored
    /\ runPc' = "returned"
    /\ runErr' = NoError
    /\ UNCHANGED <<config, parse, warnings, apiKey, requested, cancelledAt,
                   ctxDone, send, session, round, taskPc, taskVal, mu,
                   errChan, voteLog>>

\* RunOutput that empties TiedAgents once it has printed the tie.
RunOutput_ClearsTiedAgents ==
    /\ runPc = "returned"
    /\ runErr = NoError
    /\ runPc' = "output"
    /\ session' = [session EXCEPT !.TiedAgents = <<>>]
    /\ UNCHANGED <<config, parse, warnings, apiKey, requested, cancelledAt,
                   ctxDone, send, stored, round, runErr, taskPc, taskVal, mu,
                   errChan, voteLog>>

\* runCouncil calls Output after Run returned nil: it prints the scores, the
\* winner or the tie, and the solutions it names.
RunOutput ==
    /\ runPc = "returned"
    /\ runErr = NoError
    /\ runPc' = "output"
    /\ UNCHANGED <<config, parse, warnings, apiKey, requested, cancelledAt,
                   ctxDone, send, session, stored, round, runErr, taskPc,
                   taskVal, mu, errChan, voteLog>>

\* ------------------------------------------------------ cancellation

\* The signal handler's cancel(): the context every Gateway call of the run
\* was given is done from here on.
Cancel ==
    /\ ~ctxDone
    /\ runPc \notin {"main", "new", "rejected", "returned", "output"}
    /\ ctxDone' = TRUE
    /\ cancelledAt' = runPc
    /\ send' = [send EXCEPT !.cancelledIn = send.pc]
    /\ UNCHANGED <<config, parse, warnings, apiKey, requested, session,
                   stored, runPc, round, runErr, taskPc, taskVal, mu, errChan,
                   voteLog>>

\* ------------------------------------------------ Client.SendMessage

\* SendMessage returns (text, err) to its caller.
Return(s, text, err) == [s EXCEPT !.pc = "returned", !.result = Returned(text, err)]

\* The loop's test.
LoopTest(attempt) == attempt <= maxRetries

\* The error returned below the loop.
RetriesExceeded_Unwrapped(lastErr) == Error("max retries exceeded", 0, <<>>)

RetriesExceeded(lastErr) == Error("max retries exceeded", 0, lastErr)

\* attempt++ and the loop's test: the next request, or the return below the
\* loop.
NextAttempt(s) ==
    IF LoopTest(s.attempt + 1)
    THEN [s EXCEPT !.pc = "request", !.attempt = @ + 1]
    ELSE Return([s EXCEPT !.attempt = @ + 1], "", <<RetriesExceeded(s.lastErr)>>)

\* The loop body below doRequest, for what doRequest returned: return the
\* text, start the backoff wait, return the error, or fall out of the body.
AfterRequest(s, res) ==
    IF res.ok THEN Return([s EXCEPT !.replies = Append(@, res)], "text", <<>>)
    ELSE LET err == res.err[1]
             t   == [s EXCEPT !.replies = Append(@, res), !.lastErr = <<err>>]
         IN IF isRateLimitError(err) /\ t.attempt < maxRetries
            THEN [t EXCEPT !.pc = "backoff", !.delay = Delay(t.attempt),
                           !.elapsed = 0, !.waits = Append(@, Delay(t.attempt))]
            ELSE IF ~isRateLimitError(err) THEN Return(t, "", <<err>>)
            ELSE NextAttempt(t)

\* A caller calls SendMessage.
SendMessage ==
    /\ send.pc = "idle"
    /\ send' = [send EXCEPT !.pc = "request"]
    /\ UNCHANGED <<config, parse, warnings, apiKey, requested, cancelledAt,
                   ctxDone, session, stored, runPc, round, runErr, taskPc,
                   taskVal, mu, errChan, voteLog>>

\* doRequest sends the request; under a cancelled context the transport
\* sends nothing and doRequest returns the context's error at once.
DoRequest ==
    /\ send.pc = "request"
    /\ send' = IF ctxDone THEN AfterRequest(send, Canceled)
               ELSE [send EXCEPT !.pc = "inflight", !.requests = @ + 1]
    /\ requested' = (requested \/ ~ctxDone)
    /\ UNCHANGED <<config, parse, warnings, apiKey, cancelledAt, ctxDone,
                   session, stored, runPc, round, runErr, taskPc, taskVal, mu,
                   errChan, voteLog>>

\* doRequest returns for a request that was sent; once the context is
\* cancelled it may also return the context's error.
DoRequestReturn ==
    /\ send.pc = "inflight"
    /\ \E res \in Outcomes \cup (IF ctxDone THEN {Canceled} ELSE {}) :
          send' = AfterRequest(send, res)
    /\ UNCHANGED <<config, parse, warnings, apiKey, requested, cancelledAt,
                   ctxDone, session, stored, runPc, round, runErr, taskPc,
                   taskVal, mu, errChan, voteLog>>

\* A time unit of the backoff delay passes.
Tick ==
    /\ send.pc = "backoff"
    /\ send.elapsed < send.delay
    /\ send' = [send EXCEPT !.elapsed = @ + 1]
    /\ UNCHANGED <<config, parse, warnings, apiKey, requested, cancelledAt,
                   ctxDone, session, stored, runPc, round, runErr, taskPc,
                   taskVal, mu, errChan, voteLog>>

\* Whether the select's case <-ctx.Done() can be taken.
DoneReady_Never == FALSE

DoneReady == ctxDone

\* The select takes case <-ctx.Done(): return ctx.Err().
SelectDone ==
    /\ send.pc = "backoff"
    /\ DoneReady
    /\ send' = Return(send, "", <<ErrCanceled>>)
    /\ UNCHANGED <<config, parse, warnings, apiKey, requested, cancelledAt,
                   ctxDone, session, stored, runPc, round, runErr, taskPc,
                   taskVal, mu, errChan, voteLog>>

\* The select takes case <-time.After(delay), the delay having passed:
\* continue.
SelectTimer ==
    /\ send.pc = "backoff"
    /\ send.elapsed = send.delay
    /\ send' = NextAttempt(send)
    /\ UNCHANGED <<config, parse, warnings, apiKey, requested, cancelledAt,
                   ctxDone, session, stored, runPc, round, runErr, taskPc,
                   taskVal, mu, errChan, voteLog>>

\* ------------------------------------------------------ specifications

Next ==
    \/ ValidateRun
    \/ New
    \/ RunGenerate
    \/ \E a \in Agents : GenerateCall(a)
    \/ \E a \in Agents : GenerateSendErr(a)
    \/ \E a \in Agents : GenerateLock(a)
    \/ \E a \in Agents : GenerateAppend(a)
    \/ GenerateJoin
    \/ RunDiscuss
    \/ \E a \in Agents : DiscussCall(a)
    \/ \E a \in Agents : DiscussSendErr(a)
    \/ \E a \in Agents : DiscussLock(a)
    \/ \E a \in Agents : DiscussAppend(a)
    \/ DiscussJoin
    \/ RunVote
    \/ \E a \in Agents : VoteFirst(a)
    \/ \E a \in Agents : VoteRetry(a)
    \/ \E a \in Agents : VoteSendErr(a)
    \/ \E a \in Agents : VoteLock(a)
    \/ \E a \in Agents : VoteAppend(a)
    \/ VoteJoin
    \/ RunTally
    \/ RunSave
    \/ RunOutput
    \/ Cancel

\* A whole run of Council.Run, from the Council council.New built.
Spec == Init /\ [][Next]_vars

\* ------------------------------------------- the states Tally starts from

\* The solutions Generate leaves: one per agent, by agent ID.
SortedSolutions(n) == [a \in 1..n |-> [AgentID |-> a, Content |-> <<Text>>]]

\* The critiques the round loop leaves: one per agent and round, by round and
\* then by agent ID.
SortedCritiques(n, rounds) ==
    [k \in 1..(n * rounds) |->
        [AgentID |-> ((k - 1) % n) + 1, Round |-> ((k - 1) \div n) + 1,
         Content |-> <<Text>>]]

\* The votes agent id's goroutine may append: what parseVote accepts of a
\* reply, or the empty vote.
RecordedVotes(id, n, len) ==
    {r.vote : r \in {x \in VoteResults(id, n, len) : x.ok}} \cup {EmptyVote(id)}

\* The vote lists Vote may leave for agents 1..k of n: one vote per agent, by
\* voter ID.
RECURSIVE VoteLists(_, _, _)
VoteLists(k, n, len) ==
    IF k = 0 THEN {<<>>}
    ELSE {Append(l, v) : l \in VoteLists(k - 1, n, len),
                         v \in RecordedVotes(k, n, len)}

\* Run between Vote's return and its call of Tally, for every vote list of
\* rankings up to MaxBallotLen.
TallyInit ==
    /\ config \in Configs
    /\ \E votes \in VoteLists(config.AgentCount, config.AgentCount, MaxBallotLen) :
          session = [NewSession(config) EXCEPT
                        !.Solutions = SortedSolutions(config.AgentCount),
                        !.Critiques = SortedCritiques(config.AgentCount, config.Rounds),
                        !.Votes = votes]
    /\ stored = <<>>
    /\ runPc = "tally"
    /\ round = config.Rounds + 1
    /\ runErr = NoError
    /\ taskPc = [a \in Agents |-> "idle"]
    /\ taskVal = [a \in Agents |-> NoTaskVal]
    /\ mu = NilID
    /\ errChan = <<>>
    /\ voteLog = [a \in Agents |-> <<>>]
    /\ ctxDone = FALSE
    /\ cancelledAt = ""
    /\ apiKey = TRUE
    /\ requested = FALSE
    /\ send = NoSend
    /\ warnings = {}
    /\ parse = NoParse

TallyNext ==
    \/ RunTally
    \/ RunSave

\* The end of Council.Run, from Tally on, on every vote list Vote may leave.
TallySpec == TallyInit /\ [][TallyNext]_vars

\* ------------------------------------------- one SendMessage of a run

\* Generate has started its goroutines and one of them calls SendMessage.
SendInit ==
    /\ config \in Configs
    /\ session = NewSession(config)
    /\ stored = <<>>
    /\ runPc = "generating"
    /\ round = 0
    /\ runErr = NoError
    /\ taskPc = [a \in Agents |-> "call"]
    /\ taskVal = [a \in Agents |-> NoTaskVal]
    /\ mu = NilID
    /\ errChan = <<>>
    /\ voteLog = [a \in Agents |-> <<>>]
    /\ ctxDone = FALSE
    /\ cancelledAt = ""
    /\ apiKey = TRUE
    /\ requested = FALSE
    /\ send = NoSend
    /\ warnings = {}
    /\ parse = NoParse

SendNext ==
    \/ SendMessage
    \/ DoRequest
    \/ DoRequestReturn
    \/ Tick
    \/ SelectDone
    \/ SelectTimer
    \/ Cancel

SendSpec == SendInit /\ [][SendNext]_vars

\* ------------------------------------------- one parseVote of a run

\* The tokens of the free text of a reply.
ParseTokens == {LBrace, RBrace, Fence, JsonTag, Text}

\* A payload: it starts with "{", ends with "}" and holds no fence.
IsClean(p) ==
    /\ Len(p) >= 2
    /\ p[1] = LBrace
    /\ p[Len(p)] = RBrace
    /\ Fence \notin Range(p)

\* The payloads of up to MaxTokens tokens and the JSON objects of a vote.
CleanPayloads ==
    {p \in SeqsUpTo(ParseTokens, MaxTokens) : IsClean(p)}
    \cup {t \in VoteTexts(MaxAgents, MaxRankLen) : IsClean(t)}
    \cup {<<LBrace, Members([reasoning |-> "other"]), RBrace>>,
          <<LBrace, Members([rankings |-> <<>>]), RBrace>>}

\* Payload p in one fenced block, with and without the json tag.
FencedBlocks(p) == {<<Fence>> \o p \o <<Fence>>, <<Fence, JsonTag>> \o p \o <<Fence>>}

\* The replies parseVote is followed on: the texts of a vote request, every
\* text of up to MaxTokens tokens, and every payload as it is, in a fenced
\* block, and in a fenced block within prose.
ParseTexts ==
    VoteTexts(MaxAgents, MaxRankLen)
    \cup SeqsUpTo(ParseTokens, MaxTokens)
    \cup CleanPayloads
    \cup UNION {FencedBlocks(p) : p \in CleanPayloads}
    \cup {<<Text, Fence, JsonTag>> \o p \o <<Fence, Text>> : p \in CleanPayloads}

\* Vote has started its goroutines and agent parse.id has a reply to parse.
ParseInit ==
    /\ config \in Configs
    /\ session = [NewSession(config) EXCEPT
                     !.Solutions = SortedSolutions(config.AgentCount),
                     !.Critiques = SortedCritiques(config.AgentCount, config.Rounds)]
    /\ stored = <<>>
    /\ runPc = "voting"
    /\ round = config.Rounds + 1
    /\ runErr = NoError
    /\ taskPc = [a \in Agents |-> "call"]
    /\ taskVal = [a \in Agents |-> NoTaskVal]
    /\ mu = NilID
    /\ errChan = <<>>
    /\ voteLog = [a \in Agents |-> <<>>]
    /\ ctxDone = FALSE
    /\ cancelledAt = ""
    /\ apiKey = TRUE
    /\ requested = TRUE
    /\ send = NoSend
    /\ warnings = {}
    /\ \E id \in Agents, t \in ParseTexts :
          parse = [NoParse EXCEPT !.pc = "start", !.id = id,
                                  !.total = config.AgentCount, !.response = t]

\* a.parseVote(response) returns.
ParseVote ==
    /\ parse.pc = "start"
    /\ parse' = [parse EXCEPT
                    !.pc = "parsed",
                    !.result = parseVote(parse.id, parse.total, parse.response)]
    /\ UNCHANGED <<config, apiKey, requested, cancelledAt, ctxDone, send,
                   warnings, session, stored, runPc, round, runErr, taskPc,
                   taskVal, mu, errChan, voteLog>>

\* extractJSON(response) returns.
ExtractJSON ==
    /\ parse.pc = "start"
    /\ parse' = [parse EXCEPT !.pc = "extracted",
                              !.jsonStr = extractJSON(parse.response)]
    /\ UNCHANGED <<config, apiKey, requested, cancelledAt, ctxDone, send,
                   warnings, session, stored, runPc, round, runErr, taskPc,
                   taskVal, mu, errChan, voteLog>>

\* extractJSON is called on the string it returned.
ExtractAgain ==
    /\ parse.pc = "extracted"
    /\ parse' = [parse EXCEPT !.pc = "again", !.again = extractJSON(parse.jsonStr)]
    /\ UNCHANGED <<config, apiKey, requested, cancelledAt, ctxDone, send,
                   warnings, session, stored, runPc, round, runErr, taskPc,
                   taskVal, mu, errChan, voteLog>>

ParseNext ==
    \/ ParseVote
    \/ ExtractJSON
    \/ ExtractAgain

\* parseVote and extractJSON on every reply of ParseTexts.
ParseSpec == ParseInit /\ [][ParseNext]_vars

\* ------------------------------------------- the Vote phase of a run

\* The configurations Vote is followed under: --verbose set or not.
VoteConfigs ==
    [AgentCount : AgentCounts, Rounds : {MinRounds}, Save : {FALSE},
     Verbose : BOOLEAN]

\* Run after a Generate and a round loop that succeeded, about to call Vote.
VoteInit ==
    /\ config \in VoteConfigs
    /\ session = [NewSession(config) EXCEPT
                     !.Solutions = SortedSolutions(config.AgentCount),
                     !.Critiques = SortedCritiques(config.AgentCount, config.Rounds)]
    /\ stored = <<>>
    /\ runPc = "discuss"
    /\ round = config.Rounds + 1
    /\ runErr = NoError
    /\ taskPc = [a \in Agents |-> "idle"]
    /\ taskVal = [a \in Agents |-> NoTaskVal]
    /\ mu = NilID
    /\ errChan = <<>>
    /\ voteLog = [a \in Agents |-> <<>>]
    /\ ctxDone = FALSE
    /\ cancelledAt = ""
    /\ apiKey = TRUE
    /\ requested = TRUE
    /\ send = NoSend
    /\ warnings = {}
    /\ parse = NoParse

VoteNext ==
    \/ RunVote
    \/ \E a \in Agents : VoteFirst(a)
    \/ \E a \in Agents : VoteRetry(a)
    \/ \E a \in Agents : VoteSendErr(a)
    \/ \E a \in Agents : VoteLock(a)
    \/ \E a \in Agents : VoteAppend(a)
    \/ VoteJoin

\* Council.Vote, from Run's call to its return.
VoteSpec == VoteInit /\ [][VoteNext]_vars

\* ------------------------------------------- a run that is scheduled

\* `council run` with valid flags, one round and no --save.
LiveInit ==
    /\ Init
    /\ config.Rounds <= MinRounds
    /\ ~config.Save

\* A step of the run itself, Tally apart: any step but the signal handler's
\* cancel() and Run's call of Tally.
RunStep == runPc # "tally" /\ Next /\ ctxDone' = ctxDone

\* A run in which main and every goroutine that can take a step eventually
\* takes one, and every Gateway call eventually returns; the signal may come
\* at any time or never. Run's call of Tally can be taken exactly when Run is
\* at it, and its fairness is written with that condition.
LiveSpec ==
    /\ LiveInit
    /\ [][Next]_vars
    /\ WF_vars(RunStep)
    /\ (<>[](runPc = "tally") => []<><<RunTally>>_vars)

\* A run reaches Tally only in states TallySpec starts from.
TallyStartsFromVoteLists ==
    runPc = "tally" =>
        /\ session.Solutions = SortedSolutions(config.AgentCount)
        /\ session.Critiques = SortedCritiques(config.AgentCount, config.Rounds)
        /\ session.Votes \in VoteLists(config.AgentCount, config.AgentCount, MaxRankLen)
        /\ round = config.Rounds + 1

\* ------------------------------------------------------------- claims

\* Tally has run and Run has set CompletedAt.
Tallied == session.CompletedAt # ZeroTime

\* C1: after Tally, Scores has exactly N entries and its keys are exactly the
\* agent IDs 1..N, agents without a vote included.
C1_ScoresKeys ==
    Tallied =>
        /\ DOMAIN session.Scores = 1..config.AgentCount
        /\ Cardinality(DOMAIN session.Scores) = config.AgentCount

\* C1 witness: Tally has run on votes that rank some agent and leave another
\* agent without any vote.
C1_Witness ==
    /\ Tallied
    /\ \E i \in DOMAIN session.Votes : session.Votes[i].Rankings # <<>>
    /\ \E a \in Agents :
          \A i \in DOMAIN session.Votes : a \notin Range(session.Votes[i].Rankings)

\* The sum over the votes of the sum over every position i < len(rankings) of
\* N-1-i.
RECURSIVE PositionPoints(_, _)
PositionPoints(len, n) ==
    IF len = 0 THEN 0 ELSE Points(n, len - 1) + PositionPoints(len - 1, n)

\* C5: after Tally, the sum of all scores equals the sum over all votes of
\* the sum over every position i < len(rankings) of N-1-i.
C5_ScoreSum ==
    Tallied =>
        SumSeq([a \in 1..config.AgentCount |-> MapGet(session.Scores, a)])
          = SumSeq([i \in DOMAIN session.Votes |->
                       PositionPoints(Len(session.Votes[i].Rankings),
                                      config.AgentCount)])

\* The agents whose score no agent's score exceeds.
TopAgents ==
    {a \in DOMAIN session.Scores :
        \A b \in DOMAIN session.Scores : session.Scores[b] <= session.Scores[a]}

\* The elements of the set S of integers in ascending order.
Ascending(S) ==
    CHOOSE s \in Orders(S) : \A i \in 1..(Len(s) - 1) : s[i] < s[i + 1]

\* C6: after Tally, a maximum attained by one agent makes it the winner
\* (IsTie false, TiedAgents empty); a maximum attained by two or more agents
\* is a tie (no winner, TiedAgents those agents in ascending order).
C6_WinnerOrTie ==
    Tallied =>
        IF Cardinality(TopAgents) = 1
        THEN /\ session.IsTie = FALSE
             /\ session.WinnerID \in TopAgents
             /\ session.TiedAgents = <<>>
        ELSE /\ Cardinality(TopAgents) >= 2
             /\ session.IsTie = TRUE
             /\ session.WinnerID = NilID
             /\ session.TiedAgents = Ascending(TopAgents)

\* C6 witness: Tally has found two agents, and not all, at the maximum.
C6_Witness ==
    /\ Tallied
    /\ session.IsTie
    /\ Len(session.TiedAgents) = 2
    /\ Cardinality(TopAgents) < config.AgentCount

\* C2: the voter of a recorded vote is never an element of its rankings.
C2_NoSelfVote ==
    \A i \in DOMAIN session.Votes :
        session.Votes[i].VoterID \notin Range(session.Votes[i].Rankings)

\* C2 witness: the run has returned with a vote that ranks agents and a vote
\* that was degraded to the empty vote.
C2_Witness ==
    /\ runPc = "returned"
    /\ \E i \in DOMAIN session.Votes : session.Votes[i].Rankings # <<>>
    /\ \E i \in DOMAIN session.Votes : session.Votes[i] = EmptyVote(i)

\* C3: every element of a recorded vote's rankings is an agent ID in
\* 1..AgentCount.
C3_RankingsInRange ==
    \A i \in DOMAIN session.Votes :
        Range(session.Votes[i].Rankings) \subseteq 1..config.AgentCount

\* C3 witness: every agent's recorded vote ranks all the other agents.
C3_Witness ==
    /\ runPc = "returned"
    /\ Len(session.Votes) = config.AgentCount
    /\ \A i \in DOMAIN session.Votes :
          Range(session.Votes[i].Rankings) = Agents \ {session.Votes[i].VoterID}

\* C4: no agent ID appears twice in the rankings of a recorded vote.
C4_RankingsUnique ==
    \A i \in DOMAIN session.Votes :
        \A j, k \in DOMAIN session.Votes[i].Rankings :
            session.Votes[i].Rankings[j] = session.Votes[i].Rankings[k] => j = k

\* The goroutine of agent a is past its Agent.Vote calls.
VoteDecided(a) == runPc = "voting" /\ taskPc[a] \in {"senderr", "lock", "append"}

\* C7: a vote goroutine makes a second Agent.Vote call exactly when its first
\* call failed, with the request of the first call, and never a third call.
C7_RetryOnce ==
    \A a \in Agents :
        /\ Len(voteLog[a]) <= 2
        /\ Len(voteLog[a]) = 2 =>
              ~voteLog[a][1].ok /\ voteLog[a][2].req = voteLog[a][1].req
        /\ taskPc[a] = "retry" => Len(voteLog[a]) = 1
        /\ VoteDecided(a) =>
              /\ Len(voteLog[a]) >= 1
              /\ ~voteLog[a][1].ok => Len(voteLog[a]) = 2

\* C7 witness: a goroutine whose first call failed has a vote from its
\* second call.
C7_Witness ==
    \E a \in Agents :
        taskPc[a] = "lock" /\ Len(voteLog[a]) = 2 /\ voteLog[a][2].ok

\* The goroutine of agent a, both of whose Agent.Vote calls failed, appends
\* its vote in this step.
AppendsAfterTwoFailures(a) ==
    /\ runPc = "voting"
    /\ taskPc[a] = "append"
    /\ taskPc'[a] = "done"
    /\ Len(voteLog[a]) = 2
    /\ ~voteLog[a][2].ok

\* C8 as stated: after two failed calls the recorded vote is the voter, no
\* rankings and the reasoning "vote failed to parse".
C8_EmptyVoteLowerCase ==
    [][\A a \in Agents :
          AppendsAfterTwoFailures(a) =>
              session'.Votes =
                  Append(session.Votes,
                         [VoterID |-> a, Rankings |-> <<>>,
                          Reasoning |-> "vote failed to parse"])]_vars

\* C8 amended: after two failed calls the recorded vote is the voter, no
\* rankings and the reasoning "Vote failed to parse".
C8_EmptyVote ==
    [][\A a \in Agents :
          AppendsAfterTwoFailures(a) =>
              session'.Votes =
                  Append(session.Votes,
                         [VoterID |-> a, Rankings |-> <<>>,
                          Reasoning |-> "Vote failed to parse"])]_vars

\* C8 witness: the run has returned with the vote of an agent whose two
\* calls failed.
C8_Witness ==
    /\ runPc = "returned"
    /\ \E i \in DOMAIN session.Votes :
          /\ session.Votes[i].Rankings = <<>>
          /\ session.Votes[i].Reasoning = "Vote failed to parse"

\* Run has called Vote.
VoteStarted ==
    round > config.Rounds /\ runPc \in {"voting", "tally", "save", "returned", "output"}

\* C9: once Vote has started, neither Vote nor Run returns a failure,
\* whichever votes failed: Run has returned only with Tally run, CompletedAt
\* set and no error.
C9_VoteNeverAborts ==
    VoteStarted =>
        /\ runErr = NoError
        /\ runPc = "returned" => Tallied /\ DOMAIN session.Scores = Agents

\* C9 witness: the run has returned after every agent's vote failed twice.
C9_Witness ==
    /\ VoteStarted
    /\ runPc = "returned"
    /\ \A a \in Agents : session.Votes[a] = EmptyVote(a)

\* A participant of the current Generate or Discuss phase has failed.
FailedInPhase ==
    /\ runPc \in {"generating", "discussing"}
    /\ errChan # <<>> \/ \E a \in Agents : taskPc[a] = "senderr"

\* Run has returned a failure.
Aborted == runPc = "returned" /\ runErr # NoError

\* C10: a participant's failure in Generate or in a Discuss round makes the
\* phase fail and Run return the failure; after it no round and no Vote is
\* started, Tally is not run and CompletedAt is not set.
C10_FailureAborts ==
    /\ [](Aborted =>
            /\ session.Votes = <<>>
            /\ session.Scores = EmptyMap
            /\ session.CompletedAt = ZeroTime
            /\ \A i \in DOMAIN session.Critiques : session.Critiques[i].Round <= round)
    /\ [][/\ FailedInPhase =>
                \/ FailedInPhase' /\ runPc' = runPc /\ round' = round
                \/ Aborted' /\ round' = round
          /\ Aborted => UNCHANGED vars]_vars

\* C10 witness: Run has returned the failure of one participant of a Discuss
\* round that was not the last round.
C10_Witness ==
    /\ Aborted
    /\ runErr.msg = "discussion phase failed"
    /\ Len(runErr.errs) = 1
    /\ round < config.Rounds

\* ------------------------------------------------ claims: the Gateway

RateLimited == Failure(APIError(429))

\* C11: within one SendMessage every backoff wait follows a rate-limit reply
\* and every request after the first follows a wait; there are at most 3
\* waits and 4 requests, and the waits are 1, 2 and 4 time units, in this
\* order.
C11_RetryBackoff ==
    /\ \A k \in DOMAIN send.waits :
          k <= Len(send.replies) /\ send.replies[k] = RateLimited
    /\ send.requests <= Len(send.waits) + 1
    /\ Len(send.waits) <= 3
    /\ send.requests <= 4
    /\ send.waits = SubSeq(<<1, 2, 4>>, 1, Len(send.waits))
    /\ send.pc = "backoff" =>
          send.delay = send.waits[Len(send.waits)] /\ send.elapsed <= send.delay

\* Three rate-limit replies, three waits, and the fourth request is out.
C11_Witness ==
    /\ send.requests = 4
    /\ send.waits = <<1, 2, 4>>
    /\ \A k \in 1..3 : send.replies[k] = RateLimited

\* C12: a reply that is a failure other than a rate limit is the last reply of
\* its SendMessage, which has returned that error: no wait and no request
\* follows it.
C12_FailsAtOnce ==
    \A i \in DOMAIN send.replies :
        (~send.replies[i].ok /\ send.replies[i] # RateLimited) =>
            /\ i = Len(send.replies)
            /\ send.pc = "returned"
            /\ send.result = Returned("", send.replies[i].err)
            /\ Len(send.waits) = i - 1
            /\ send.requests <= i

\* A server fault on the third attempt, after two rate limits.
C12_Witness ==
    /\ Len(send.replies) = 3
    /\ send.replies[3] = Failure(APIError(500))
    /\ send.requests = 3
    /\ send.pc = "returned"

FourRateLimits ==
    /\ Len(send.replies) = 4
    /\ \A i \in 1..4 : send.replies[i] = RateLimited

\* C13: when the first request and the three retries were all rate-limited,
\* SendMessage has returned the "max retries exceeded" error that wraps the
\* last rate-limit error, after 4 requests; no SendMessage makes a fifth.
C13_RetriesExhausted ==
    /\ send.requests <= 4
    /\ FourRateLimits =>
          /\ send.pc = "returned"
          /\ send.requests = 4
          /\ send.result[1].text = ""
          /\ send.result[1].err[1].msg = "max retries exceeded"
          /\ send.result[1].err[1].cause = send.replies[4].err
          /\ ErrorsIs(send.result[1].err[1], APIError(429))

C13_Witness ==
    /\ FourRateLimits
    /\ send.pc = "returned"
    /\ send.waits = <<1, 2, 4>>

CancelledInBackoff == send.cancelledIn = "backoff"

\* C14: once the context is cancelled while SendMessage waits in a backoff
\* delay, the waiting select can return at once, SendMessage sends no further
\* request and starts no further wait, and what it returns is the
\* cancellation error (ctx.Err(), or doRequest's wrapping of it when the
\* delay ran out before the select was taken).
C14_CancelInterruptsBackoff ==
    /\ [](CancelledInBackoff =>
            /\ send.pc = "backoff" => ENABLED SelectDone
            /\ send.pc = "returned" =>
                  /\ send.result[1].text = ""
                  /\ ErrorsIs(send.result[1].err[1], ErrCanceled))
    /\ [][CancelledInBackoff =>
            /\ send'.requests = send.requests
            /\ send'.waits = send.waits]_vars

\* Cancelled one time unit into the 2-unit wait, and returned from there.
C14_Witness ==
    /\ CancelledInBackoff
    /\ send.pc = "returned"
    /\ send.result = Returned("", <<ErrCanceled>>)
    /\ send.delay = 2
    /\ send.elapsed = 1

\* ------------------------------------------------ claims: cancellation

\* The context was cancelled while a phase's goroutines were running.
CancelledInPhase == cancelledAt \in {"generating", "discussing", "voting"}

\* C15: when the context is cancelled while Generate, a Discuss round or Vote
\* is in progress, Run returns an error, Tally is not run and CompletedAt is
\* not set.
C15_CancelAbortsRun ==
    CancelledInPhase =>
        /\ runPc \notin {"tally", "save"}
        /\ session.CompletedAt = ZeroTime
        /\ session.Scores = EmptyMap
        /\ runPc = "returned" => runErr # NoError

\* ---------------------------------- claims: phases and their goroutines

InPhase == runPc \in {"generating", "discussing", "voting"}

\* The steps Run may take from one position to the next.
RunOrder ==
    \/ runPc' = runPc /\ round' = round
    \/ runPc = "main" /\ runPc' \in {"new", "rejected"}
    \/ runPc = "new" /\ runPc' \in {"start", "rejected"}
    \/ runPc = "start" /\ runPc' = "generating"
    \/ runPc = "generating" /\ runPc' = "discuss" /\ round' = 1
    \/ runPc = "discuss" /\ runPc' = "discussing" /\ round' = round
          /\ round \in 1..config.Rounds
    \/ runPc = "discussing" /\ runPc' = "discuss" /\ round' = round + 1
    \/ runPc = "discuss" /\ runPc' = "voting" /\ round = config.Rounds + 1
    \/ runPc = "voting" /\ runPc' = "tally"
    \/ runPc = "tally" /\ runPc' = "save"
    \/ runPc = "save" /\ runPc' = "returned"
    \/ runPc = "returned" /\ runPc' = "output"
    \/ runPc \in {"generating", "discussing"} /\ runPc' = "returned"

\* C16: Run goes through Generate, Discuss rounds 1..Rounds in increasing
\* order, Vote and Tally, in this order; a phase is left only when each of
\* its goroutines is done, and outside a phase no goroutine runs and the
\* mutex is free; what a phase appends is appended during that phase only.
C16_PhasesSequential ==
    /\ [](~InPhase => /\ \A a \in Agents : taskPc[a] = "idle"
                      /\ mu = NilID)
    /\ [](/\ runPc \in {"main", "new", "start", "generating"} =>
                session.Critiques = <<>> /\ session.Votes = <<>>
          /\ runPc \in {"discuss", "discussing"} => session.Votes = <<>>
          /\ \A i \in DOMAIN session.Critiques :
                session.Critiques[i].Round \in 1..round)
    /\ [][/\ RunOrder
          /\ (InPhase /\ runPc' # runPc) => \A a \in Agents : taskPc[a] = "done"
          /\ runPc # "generating" => session'.Solutions = session.Solutions
          /\ runPc # "discussing" => session'.Critiques = session.Critiques
          /\ runPc # "voting" => session'.Votes = session.Votes]_vars

\* Two rounds of discussion and the vote are over.
C16_Witness ==
    /\ runPc = "tally"
    /\ config.Rounds = 2
    /\ round = 3
    /\ {c.Round : c \in Range(session.Critiques)} = {1, 2}
    /\ Len(session.Votes) = config.AgentCount

\* The goroutines that hold the mutex and have not yet left their append.
Appending == {a \in Agents : taskPc[a] = "append"}

\* The agents whose goroutine's result is in the Result.
Appended ==
    CASE runPc = "generating" -> {x.AgentID : x \in Range(session.Solutions)}
      [] runPc = "discussing" ->
            {x.AgentID : x \in {c \in Range(session.Critiques) : c.Round = round}}
      [] runPc = "voting" -> {x.VoterID : x \in Range(session.Votes)}
      [] OTHER -> {}

\* The number of results the current phase has appended.
AppendedCount ==
    CASE runPc = "generating" -> Len(session.Solutions)
      [] runPc = "discussing" ->
            Cardinality({i \in DOMAIN session.Critiques :
                            session.Critiques[i].Round = round})
      [] runPc = "voting" -> Len(session.Votes)
      [] OTHER -> 0

\* C17: at most one goroutine is inside an append, and it holds the mutex;
\* during a phase the Result holds exactly one entry for every goroutine that
\* has finished without returning early on an error, so no append is lost.
C17_ExclusiveAppend ==
    /\ Cardinality(Appending) <= 1
    /\ \A a \in Agents : taskPc[a] = "append" <=> mu = a
    /\ InPhase =>
          /\ Appended = {a \in Agents : taskPc[a] = "done"}
                           \ (IF runPc = "voting" THEN {} ELSE Range(errChan))
          /\ AppendedCount = Cardinality(Appended)

\* One goroutine holds the mutex while another waits for it and a third has
\* appended.
C17_Witness ==
    /\ \E a, b, c \in Agents :
          /\ taskPc[a] = "append"
          /\ taskPc[b] = "lock"
          /\ taskPc[c] = "done"
          /\ c \in Appended

\* C18: while a phase runs, no step changes what its goroutines read: the
\* task during Generate, the task and the solutions during Discuss, and the
\* task, the solutions and the critiques during Vote; every vote call, a
\* retry included, was given the same task, solutions and critiques.
C18_StableInputs ==
    /\ [](runPc = "voting" =>
            \A a \in Agents : \A i \in DOMAIN voteLog[a] :
                voteLog[a][i].req = [task |-> session.Task,
                                     solutions |-> session.Solutions,
                                     critiques |-> session.Critiques])
    /\ [][/\ (InPhase /\ runPc' = runPc) => session'.Task = session.Task
          /\ runPc = "discussing" => session'.Solutions = session.Solutions
          /\ runPc = "voting" =>
                /\ session'.Task = session.Task
                /\ session'.Solutions = session.Solutions
                /\ session'.Critiques = session.Critiques]_vars

\* A vote goroutine retries after two others have appended their votes.
C18_Witness ==
    /\ runPc = "voting"
    /\ Len(session.Votes) = 2
    /\ \E a \in Agents : Len(voteLog[a]) = 2

\* ------------------------------------ claims: configuration and saving

BadConfig == config.AgentCount < 3 \/ config.Rounds < 1 \/ ~apiKey

C20_SaveFailureWarns ==
    [][(runPc = "save" /\ runPc' # "save" /\ config.Save /\ stored' = <<>>) =>
          /\ runPc' = "returned"
          /\ runErr' = NoError
          /\ session' = session
          /\ session'.Scores = TallyScores(session, config.AgentCount)]_vars

\* A run that was to be saved has returned nil with nothing stored.
C20_Witness ==
    /\ runPc = "returned"
    /\ config.Save
    /\ stored = <<>>
    /\ runErr = NoError
    /\ session.CompletedAt = Now
    /\ ~session.IsTie

\* ------------------------------------------------ claims: the outcome

\* C21: when Run has returned the failure of a Generate or Discuss phase and
\* the session was to be saved, storage holds the partial session.
C21_PartialSessionSaved ==
    (Aborted /\ config.Save) => stored = <<session>>

\* The votes are 1 -> [2, 3], 2 -> [3, 1], 3 -> [1, 2].
CircularVotes ==
    /\ config.AgentCount = 3
    /\ Len(session.Votes) = 3
    /\ session.Votes[1].VoterID = 1 /\ session.Votes[1].Rankings = <<2, 3>>
    /\ session.Votes[2].VoterID = 2 /\ session.Votes[2].Rankings = <<3, 1>>
    /\ session.Votes[3].VoterID = 3 /\ session.Votes[3].Rankings = <<1, 2>>

\* C22: with 3 agents and the votes 1 -> [2, 3], 2 -> [3, 1], 3 -> [1, 2],
\* Tally gives every agent 3 points and reports the tie of agents 1, 2, 3.
C22_CircularTie ==
    (Tallied /\ CircularVotes) =>
        /\ session.Scores = <<3, 3, 3>>
        /\ session.IsTie = TRUE
        /\ session.WinnerID = NilID
        /\ session.TiedAgents = <<1, 2, 3>>

C22_Witness == Tallied /\ CircularVotes /\ runPc = "save"

\* Generate has returned nil.
Generated ==
    \/ runPc \in {"discuss", "discussing", "voting", "tally", "save", "output"}
    \/ runPc = "returned" /\ runErr.msg # "generation phase failed"

\* C23: after a successful Generate, Solutions holds one solution per agent
\* 1..N, in ascending order of agent ID.
C23_SolutionsPerAgent ==
    Generated =>
        /\ Len(session.Solutions) = config.AgentCount
        /\ \A i \in 1..config.AgentCount : session.Solutions[i].AgentID = i

\* Generate has just returned nil.
C23_Witness ==
    /\ runPc = "discuss"
    /\ round = 1
    /\ Len(session.Solutions) = 3
    /\ session.Solutions[3].AgentID = 3

\* Run is between two Discuss rounds or past the last one: rounds 1..round-1
\* have returned nil.
RoundsDone ==
    \/ runPc \in {"discuss", "voting", "tally", "save", "output"}
    \/ runPc = "returned" /\ runErr = NoError

\* C24: when Discuss rounds 1..r have returned nil, Critiques holds one
\* critique per agent 1..N and round 1..r, by round and then by agent ID; a
\* critique appended during round r carries Round = r.
C24_CritiquesPerRound ==
    /\ [](RoundsDone =>
            /\ Len(session.Critiques) = config.AgentCount * (round - 1)
            /\ \A k \in DOMAIN session.Critiques :
                  /\ session.Critiques[k].Round = ((k - 1) \div config.AgentCount) + 1
                  /\ session.Critiques[k].AgentID = ((k - 1) % config.AgentCount) + 1)
    /\ [][(runPc = "discussing" /\ Len(session'.Critiques) > Len(session.Critiques)) =>
             /\ Len(session'.Critiques) = Len(session.Critiques) + 1
             /\ session'.Critiques[Len(session'.Critiques)].Round = round]_vars

\* The second of two rounds has returned nil.
C24_Witness ==
    /\ runPc = "discuss"
    /\ round = 3
    /\ Len(session.Critiques) = 6
    /\ session.Critiques[4].Round = 2 /\ session.Critiques[4].AgentID = 1

\* Vote has returned.
Voted == VoteStarted /\ runPc # "voting"

\* C25: after Vote, Votes holds exactly one vote per agent 1..N, in ascending
\* order of voter ID, whichever votes failed.
C25_VotesPerAgent ==
    Voted =>
        /\ Len(session.Votes) = config.AgentCount
        /\ \A i \in 1..config.AgentCount : session.Votes[i].VoterID = i

\* Vote has returned with a parsed vote, a vote degraded after two failures
\* and a third vote.
C25_Witness ==
    /\ runPc = "tally"
    /\ session.Votes[1].Rankings # <<>>
    /\ session.Votes[2] = EmptyVote(2)
    /\ Len(session.Votes) = 3

\* C26: the failure a Generate or Discuss phase returns lists every agent
\* whose call failed in that phase, once each.
C26_AllFailuresListed ==
    [][(InPhase /\ Aborted') =>
          /\ Range(runErr'.errs) = Agents \ Appended
          /\ Len(runErr'.errs) = Cardinality(Agents \ Appended)
          /\ runErr'.errs # <<>>]_vars

\* A Discuss round has failed for two of three agents.
C26_Witness ==
    /\ Aborted
    /\ runErr.msg = "discussion phase failed"
    /\ Len(runErr.errs) = 2
    /\ Len(session.Critiques) = 1

\* The points agent a gets from the rankings r among n agents, counting the
\* positions before n-1 only (i is 1-indexed: 0-indexed position i-1).
RankingPoints(a, r, n) ==
    SumSeq([i \in 1..Min({Len(r), n - 1}) |-> IF r[i] = a THEN n - i ELSE 0])

\* C27: after Tally every score is a non-negative integer and is the sum of
\* the points of the positions before N-1: a position at or past N-1 adds
\* nothing and takes nothing away.
C27_LatePositionsCountZero ==
    Tallied =>
        \A a \in 1..config.AgentCount :
            /\ session.Scores[a] \in Nat
            /\ session.Scores[a] =
                  SumSeq([v \in DOMAIN session.Votes |->
                            RankingPoints(a, session.Votes[v].Rankings,
                                          config.AgentCount)])

\* Tally has run on a vote with a ranking at position N-1 and one past it.
C27_Witness ==
    /\ Tallied
    /\ \E v \in DOMAIN session.Votes :
          Len(session.Votes[v].Rankings) > config.AgentCount
    /\ \E a \in Agents : session.Scores[a] > 0

\* The results the goroutines of the phase have computed, by agent.
TaskResults == [a \in Agents |-> taskVal[a]]

\* C28: what a phase leaves is decided by what each goroutine computed, not
\* by the order of the appends: when Generate, a Discuss round or Vote returns
\* nil, the phase's entries are the goroutines' results in the order of the
\* agent IDs (after the entries of earlier rounds); the outcome of Tally is
\* decided by the votes; and a vote call is given the sorted solutions and
\* critiques.
C28_OrderIndependent ==
    /\ [][/\ (runPc = "generating" /\ runPc' = "discuss") =>
                session'.Solutions = TaskResults
          /\ (runPc = "discussing" /\ runPc' = "discuss") =>
                session'.Critiques =
                   SubSeq(session.Critiques, 1, config.AgentCount * (round - 1))
                      \o TaskResults
          /\ (runPc = "voting" /\ runPc' = "tally") =>
                session'.Votes = TaskResults
          /\ (runPc = "tally" /\ runPc' = "save") =>
                /\ session'.Scores = TallyScores(session, config.AgentCount)
                /\ session'.TiedAgents =
                      (IF Cardinality(WinnerSet(session'.Scores)) = 1 THEN <<>>
                       ELSE Ascending(WinnerSet(session'.Scores)))
                /\ session'.IsTie = (Cardinality(WinnerSet(session'.Scores)) # 1)
                /\ {session'.WinnerID} \ {NilID} =
                      (IF Cardinality(WinnerSet(session'.Scores)) = 1
                       THEN WinnerSet(session'.Scores) ELSE {})]_vars
    /\ [](\A a \in Agents : \A i \in DOMAIN voteLog[a] :
            /\ \A k \in DOMAIN voteLog[a][i].req.solutions :
                  voteLog[a][i].req.solutions[k].AgentID = k
            /\ \A k \in 1..(Len(voteLog[a][i].req.critiques) - 1) :
                  CritiqueLess(voteLog[a][i].req.critiques[k],
                               voteLog[a][i].req.critiques[k + 1]))

\* Every vote goroutine is done and the last agent's vote was appended first.
C28_Witness ==
    /\ runPc = "voting"
    /\ Joined
    /\ Len(session.Votes) = 3
    /\ session.Votes[1].VoterID = 3
    /\ session.Votes[1].Rankings # <<>>
    /\ session.Solutions[1].AgentID = 1

\* C29: once Tally has run and CompletedAt is set, no step changes the
\* session: not the save, successful or failed, and not the output; and what
\* storage holds is that session.
C29_ResultImmutable ==
    /\ [][Tallied => session' = session]_vars
    /\ [](stored # <<>> => Tallied /\ stored = <<session>>)

\* The session was saved and the output printed.
C29_Witness ==
    /\ runPc = "output"
    /\ stored = <<session>>
    /\ session.IsTie
    /\ session.TiedAgents # <<>>

\* The session without the fields in S.
Without(sess, S) == [f \in (DOMAIN sess) \ S |-> sess[f]]

\* C30: a step of Generate changes only Solutions, a step of a Discuss round
\* only Critiques, keeping the critiques of earlier rounds, a step of Vote only
\* Votes, and Tally only Scores, WinnerID, IsTie and TiedAgents (Run sets
\* CompletedAt with it); from the end of Generate on Solutions never changes.
C30_PhaseFrames ==
    [][/\ runPc = "generating" =>
             Without(session', {"Solutions"}) = Without(session, {"Solutions"})
       /\ runPc = "discussing" =>
             /\ Without(session', {"Critiques"}) = Without(session, {"Critiques"})
             /\ \A k \in 1..(config.AgentCount * (round - 1)) :
                   session'.Critiques[k] = session.Critiques[k]
       /\ runPc = "discuss" => session' = session
       /\ runPc = "voting" =>
             Without(session', {"Votes"}) = Without(session, {"Votes"})
       /\ runPc = "tally" =>
             Without(session', {"Scores", "WinnerID", "IsTie", "TiedAgents",
                                "CompletedAt"})
                = Without(session, {"Scores", "WinnerID", "IsTie", "TiedAgents",
                                    "CompletedAt"})
       /\ Generated => session'.Solutions = session.Solutions]_vars

\* The second Discuss round has appended to the critiques of the first.
C30_Witness ==
    /\ runPc = "discussing"
    /\ round = 2
    /\ Len(session.Critiques) = 5
    /\ session.Critiques[5].Round = 2

\* What json.Unmarshal decodes of the payload of the reply being parsed.
Decoded == jsonUnmarshal(extractJSON(parse.response))

\* The decoded ranking names an agent ID outside 1..total.
OutOfRange ==
    \E i \in DOMAIN Decoded.Rankings :
        Decoded.Rankings[i] < 1 \/ Decoded.Rankings[i] > parse.total

\* The decoded ranking names the voter.
SelfVote == parse.id \in Range(Decoded.Rankings)

\* C31: parseVote never corrects a reply. A reply that does not decode, or
\* whose ranking names the voter or an agent ID out of range, gives an error
\* and no vote; a vote it returns has the decoded ranking list as it is, in
\* the same order, and the decoded reasoning.
C31_NoSilentCorrection ==
    parse.pc = "parsed" =>
        /\ (~Decoded.ok \/ SelfVote \/ OutOfRange) =>
              /\ ~parse.result.ok
              /\ parse.result.err # ""
              /\ parse.result.vote = NoVote
        /\ parse.result.ok =>
              /\ parse.result.err = ""
              /\ parse.result.vote = [VoterID |-> parse.id,
                                      Rankings |-> Decoded.Rankings,
                                      Reasoning |-> Decoded.Reasoning]

\* A ranking of MaxRankLen agents, not in ascending order, was returned as
\* it was decoded.
C31_Witness ==
    /\ parse.pc = "parsed"
    /\ parse.result.ok
    /\ Len(parse.result.vote.Rankings) = MaxRankLen
    /\ parse.result.vote.Rankings[1] > parse.result.vote.Rankings[2]
    /\ parse.result.vote.Rankings = Decoded.Rankings

\* C34: extractJSON returns a clean payload as it is, whether it is given the
\* payload itself or the payload in one fenced block, with or without the
\* json tag; and given a non-empty string it returned, it returns it again.
C34_ExtractionIdempotent ==
    /\ parse.pc \in {"extracted", "again"} =>
          \A p \in CleanPayloads :
              parse.response \in {p} \cup FencedBlocks(p) => parse.jsonStr = p
    /\ (parse.pc = "again" /\ parse.jsonStr # <<>>) => parse.again = parse.jsonStr

\* A payload with a nested object, in a tagged fenced block, was extracted
\* twice.
C34_Witness ==
    /\ parse.pc = "again"
    /\ parse.response = <<Fence, JsonTag, LBrace, LBrace, RBrace, RBrace, Fence>>
    /\ parse.jsonStr = <<LBrace, LBrace, RBrace, RBrace>>
    /\ parse.again = parse.jsonStr

\* C35: a decoded ranking that names both the voter and an agent ID out of
\* range, in either order, is rejected as a self-vote.
C35_SelfVoteFirst ==
    (parse.pc = "parsed" /\ Decoded.ok /\ SelfVote /\ OutOfRange) =>
        /\ ~parse.result.ok
        /\ parse.result.err = "voted for their own solution"

\* The ranking names an agent ID out of range first and the voter second.
C35_Witness ==
    /\ parse.pc = "parsed"
    /\ Decoded.ok
    /\ Len(Decoded.Rankings) = 2
    /\ Decoded.Rankings[1] > parse.total
    /\ Decoded.Rankings[2] = parse.id
    /\ parse.result.err = "voted for their own solution"

\* C32: a first vote call that failed in the Gateway is not followed by a
\* second vote request of that agent.
C32_GatewayFailureNotRetried ==
    [][\A a \in Agents :
          (runPc = "voting" /\ taskPc[a] = "retry" /\ taskVal[a].gateway) =>
              voteLog'[a] = voteLog[a]]_vars

\* The votes recorded as an empty ranking with the placeholder reasoning.
Degraded == {v \in Range(session.Votes) : v = EmptyVote(v.VoterID)}

\* C33: once Vote has returned, a warning names every agent whose vote was
\* degraded, with --verbose and without.
C33_WarningLogged ==
    (runPc = "tally" /\ round > config.Rounds) =>
        \A v \in Degraded : v.VoterID \in warnings

\* The agents whose first reply decoded to an object with no rankings field or
\* an empty rankings list, and whose goroutine has not appended yet.
EmptyFirst ==
    {a \in Agents : runPc = "voting" /\ voteLog[a] # <<>> /\ voteLog[a][1].empty}

\* C40: a first reply that decodes to an object with no rankings field, or an
\* empty rankings list, is accepted as it is: the goroutine makes no second
\* call and sends no error, the vote it appends has the empty ranking and the
\* reply's reasoning, and no vote with a reasoning of its own has an error in
\* the channel or a warning.
C40_EmptyRankingAccepted ==
    /\ [](\A a \in EmptyFirst :
            /\ voteLog[a][1].ok
            /\ Len(voteLog[a]) = 1
            /\ taskPc[a] \in {"lock", "append"}
            /\ taskVal[a] = [VoterID |-> a, Rankings |-> <<>>,
                             Reasoning |-> voteLog[a][1].reasoning]
            /\ taskVal[a] # EmptyVote(a)
            /\ a \notin Range(errChan))
    /\ [](\A v \in Range(session.Votes) \ Degraded :
            v.VoterID \notin Range(errChan) \cup warnings)
    /\ [][\A a \in EmptyFirst :
             taskPc'[a] = "done" => session'.Votes = Append(session.Votes, taskVal[a])]_vars

\* Under --verbose, an agent whose first reply had no ranking is appending its
\* vote while another agent's vote has been degraded.
C40_Witness ==
    /\ config.Verbose
    /\ \E a \in EmptyFirst : taskPc[a] = "append" /\ taskVal[a].Reasoning = "because"
    /\ Degraded # {}

\* C36: when every recorded vote has an empty ranking, Tally gives every agent
\* the score 0 and reports a tie of all the agents: IsTie set, no WinnerID,
\* TiedAgents 1..N in ascending order.
C36_AllEmptyTie ==
    (Tallied /\ \A v \in Range(session.Votes) : v.Rankings = <<>>) =>
        /\ session.Scores = [a \in 1..config.AgentCount |-> 0]
        /\ session.IsTie
        /\ session.WinnerID = NilID
        /\ session.TiedAgents = [i \in 1..config.AgentCount |-> i]

\* Tally has run on the degraded votes of all the agents.
C36_Witness ==
    /\ Tallied
    /\ Len(session.Votes) = config.AgentCount
    /\ Degraded = Range(session.Votes)
    /\ session.IsTie

\* C38: WinnerID is never set while IsTie holds; before Tally has run,
\* WinnerID is unset, IsTie is false and TiedAgents and Scores are empty; a
\* tie has at least 2 tied agents.
C38_WinnerXorTie ==
    /\ ~(session.WinnerID # NilID /\ session.IsTie)
    /\ ~Tallied =>
          /\ session.WinnerID = NilID
          /\ ~session.IsTie
          /\ session.TiedAgents = <<>>
          /\ session.Scores = EmptyMap
    /\ session.IsTie => Len(session.TiedAgents) >= 2

\* A run has ended in a tie of two of its three agents.
C38_Witness ==
    /\ runPc = "output"
    /\ session.IsTie
    /\ Len(session.TiedAgents) = 2
    /\ session.WinnerID = NilID

\* Run has returned the failure of Generate or of a Discuss round.
PhaseFailed ==
    /\ Aborted
    /\ runErr.msg \in {"generation phase failed", "discussion phase failed"}

\* The agents whose goroutine sent no error in the phase that failed.
Succeeded == Agents \ Range(runErr.errs)

\* The critiques of round r, in the order they have in the session.
RoundCritiques(r) == SelectSeq(session.Critiques, LAMBDA c : c.Round = r)

\* C39: a failed Generate or Discuss round is not rolled back. The step in
\* which the phase fails, and every step after it, leaves the session as the
\* goroutines left it, unsorted; it holds one output of the failed phase for
\* each agent that succeeded, and the sorted outputs of the phases before;
\* Votes and Scores are empty and CompletedAt is unset.
C39_NoRollback ==
    /\ [](PhaseFailed =>
            /\ session.Votes = <<>>
            /\ session.Scores = EmptyMap
            /\ session.CompletedAt = ZeroTime
            /\ IF runErr.msg = "generation phase failed"
               THEN /\ {x.AgentID : x \in Range(session.Solutions)} = Succeeded
                    /\ Len(session.Solutions) = Cardinality(Succeeded)
                    /\ session.Critiques = <<>>
               ELSE /\ session.Solutions = SortedSolutions(config.AgentCount)
                    /\ SubSeq(session.Critiques, 1, config.AgentCount * (round - 1))
                          = SortedCritiques(config.AgentCount, round - 1)
                    /\ {c.AgentID : c \in Range(RoundCritiques(round))} = Succeeded
                    /\ Len(session.Critiques) =
                          config.AgentCount * (round - 1) + Cardinality(Succeeded))
    /\ [][(PhaseFailed' /\ runPc \in {"generating", "discussing", "returned"}) =>
             session' = session]_vars

\* Generate has failed with the solutions of agents 3 and 2 appended in that
\* order, and the session still holds them in that order.
C39_Witness ==
    /\ PhaseFailed
    /\ runErr.msg = "generation phase failed"
    /\ Len(session.Solutions) = 2
    /\ session.Solutions[1].AgentID > session.Solutions[2].AgentID

\* The command is over: the flags were rejected, or Run has returned and, on
\* success, the result was printed.
Ended ==
    \/ runPc = "rejected"
    \/ runPc = "returned" /\ runErr # NoError
    \/ runPc = "output"

\* C37: every run ends, whichever goroutines fail and however they are
\* interleaved: no goroutine stays blocked on the error channel, which holds
\* at most one error per agent and never more than its capacity N, or on the
\* mutex, whose holder is a goroutine inside its append.
C37_RunReturns ==
    /\ <>Ended
    /\ [](/\ Len(errChan) <= Cardinality(Agents)
          /\ \A i, j \in DOMAIN errChan : errChan[i] = errChan[j] => i = j
          /\ mu # NilID => taskPc[mu] = "append")

\* Run has returned the failure of a phase in which every goroutine sent an
\* error: the channel was filled to its capacity.
C37_Witness ==
    /\ Ended
    /\ runErr # NoError
    /\ Len(runErr.errs) = config.AgentCount
    /\ config.AgentCount = MaxAgents

=============================================================================
